---- MODULE Spec2Model ----
(***************************************************************************)
(* Model of the local JSON persistence layer of the stock dashboard:       *)
(*   theses_manager.py          theses.json, a flat list of thesis dicts    *)
(*   earnings_cache_manager.py  earnings_cache.json, keyed by ticker        *)
(*   sankey_cache_manager.py    sankey_structures.json, keyed by ticker     *)
(* and of the callers that decide what reaches them (app.py, obb_utils.py). *)
(*                                                                         *)
(* A file is a record [kind, data]: kind says what a reader finds           *)
(* ("missing", "empty", "invalid" JSON text, or "json"), data is the parsed *)
(* content when kind = "json".  Every open() for reading can fail with an   *)
(* access error (rd = "err"), every write can fail when the file is opened  *)
(* ("open_fail", file untouched) or while json.dump is streaming into the   *)
(* truncated file ("dump_empty", "dump_partial").                           *)
(***************************************************************************)
EXTENDS Integers, Sequences, FiniteSets, TLC

\* ---------------------------------------------------------------- bounds
\* number of uuid4 values the model lets save_thesis generate
MaxIds == 2
\* last value of the wall clock (datetime.now / date.today)
MaxNow == 1
\* number of uuid4 values the model lets the dashboard's handlers draw
MaxDraftIds == 1

\* number of clock values per calendar day
TicksPerDay == 2
\* last value of the wall clock in the cache specifications
MaxCacheNow == 2
\* number of rows in which an income statement differs from the typical one
MaxDeviations == 2
\* number of events an answer of the Polymarket search by ticker can lack
MaxDropped == 2

\* ------------------------------------------------------ program constants
\* the id of get_empty_thesis_template and of a fresh draft: "" (falsy)
EmptyId == 0

VARIABLES
    theses_file,    \* theses.json
    nextId,         \* the next uuid4 value
    now,            \* the wall clock
    call,           \* the call in progress, with its arguments
    ret,            \* what that call returned
    session_state,  \* st.session_state: the keys of the draft form
    ticker_symbol,  \* the sidebar's ticker
    slider_validates, \* whether this Streamlit build range-checks a keyed slider
    earnings_file,  \* earnings_cache.json
    sankey_file,    \* sankey_structures.json
    promise         \* per cache and key: what the last save or invalidate for
                    \* the key was, and whether an I/O fault has hit the file since

vars == <<theses_file, nextId, now, call, ret, session_state, ticker_symbol,
          slider_validates, earnings_file, sankey_file, promise>>

cache_vars == <<earnings_file, sankey_file, promise>>

dashboard_vars == <<session_state, ticker_symbol, slider_validates>>

\* ------------------------------------------------------------ file system
MissingFile == [kind |-> "missing", data |-> <<>>]

ReadOutcomes == {"ok", "err"}
WriteOutcomes == {"ok", "open_fail", "dump_empty", "dump_partial"}

\* with open(FILE, "w") as f: json.dump(value, f)
WriteFile(file, value, wr) ==
    CASE wr = "ok"           -> [kind |-> "json", data |-> value]
      [] wr = "open_fail"    -> file
      [] wr = "dump_empty"   -> [kind |-> "empty", data |-> <<>>]
      [] wr = "dump_partial" -> [kind |-> "invalid", data |-> <<>>]

\* a read can only fail on a file that exists (os.path.exists is tested first)
CanRead(file, rd) == rd = "ok" \/ file.kind # "missing"

\* ------------------------------------------------------------ python dicts
\* d[k] = v
Put(d, k, v) == [x \in (DOMAIN d) \cup {k} |-> IF x = k THEN v ELSE d[x]]

\* "k" in d and bool(d[k])
Has(d, k) == k \in DOMAIN d

\* ---------------------------------------------------------------- strings
\* a string is a sequence of characters; " " is the whitespace character
IsSpace(c) == c = " "

RECURSIVE lstrip(_)
lstrip(s) == IF s # <<>> /\ IsSpace(Head(s)) THEN lstrip(Tail(s)) ELSE s

RECURSIVE rstrip(_)
rstrip(s) ==
    IF s # <<>> /\ IsSpace(s[Len(s)]) THEN rstrip(SubSeq(s, 1, Len(s) - 1)) ELSE s

\* str.strip()
strip(s) == rstrip(lstrip(s))

\* ---------------------------------------------------------- theses_manager
None == [none |-> TRUE, theses |-> <<>>]
Some(list) == [none |-> FALSE, theses |-> list]

\* load_theses with an undecodable file treated as any other read error
load_theses_strict(file, rd) ==
    IF file.kind = "missing" THEN Some(<<>>)
    ELSE IF rd = "err" THEN None
    ELSE IF file.kind = "empty" THEN Some(<<>>)
    ELSE IF file.kind = "invalid" THEN None
    ELSE Some(file.data)

\* load_theses(): [] for a missing, empty or undecodable file, None for any
\* other exception of open/read
load_theses(file, rd) ==
    IF file.kind = "missing" THEN Some(<<>>)
    ELSE IF rd = "err" THEN None
    ELSE IF file.kind = "empty" THEN Some(<<>>)
    ELSE IF file.kind = "invalid" THEN Some(<<>>)
    ELSE Some(file.data)

\* line 32: if theses is None: theses = []
NoneFallback(loaded) == IF loaded.none THEN Some(<<>>) ELSE loaded

\* line 44: "id" not in thesis_data or not thesis_data["id"]
NoId(thesis_data) == ~ Has(thesis_data, "id") \/ thesis_data["id"] = EmptyId

\* lines 48-49: the content test of the de-duplication loop
SameContent(t, thesis_data) ==
    /\ t["ticker"] = thesis_data["ticker"]
    /\ strip(t["thesis_statement"]) = strip(thesis_data["thesis_statement"])

\* the index of the last hit instead of the first, 0 when there is none
LastIndex(hits) ==
    IF hits = {} THEN 0 ELSE CHOOSE i \in hits : \A j \in hits : j <= i

\* a loop that never finds what it looks for
NoIndex(hits) == 0

\* the index at which a for/enumerate loop with break stops, 0 when it runs out
\* hits: the indices at which the loop's test holds
FirstIndex(hits) ==
    IF hits = {} THEN 0 ELSE CHOOSE i \in hits : \A j \in hits : i <= j

\* SaveBody with the update branches not stamping 'updated_at' and the create
\* branch inserting at the front
SaveBodyUnstamped(theses, thesis_data, clock, uuid) ==
    IF NoId(thesis_data)
    THEN LET i == FirstIndex({k \in 1..Len(theses) :
                                    SameContent(theses[k], thesis_data)})
         IN  IF i # 0
             THEN LET d == Put(thesis_data, "id", theses[i]["id"])
                  IN  [theses |-> [theses EXCEPT ![i] = d], data |-> d,
                       path |-> "dedup"]
             ELSE LET d == Put(Put(thesis_data, "id", uuid), "created_at", clock)
                  IN  [theses |-> Append(theses, d), data |-> d, path |-> "create"]
    ELSE LET d == thesis_data
             i == FirstIndex({k \in 1..Len(theses) : theses[k]["id"] = d["id"]})
         IN  IF i # 0
             THEN [theses |-> [theses EXCEPT ![i] = d], data |-> d,
                   path |-> "update"]
             ELSE [theses |-> Append(theses, d), data |-> d, path |-> "recover"]

\* SaveBody with new records inserted at the front of the list
SaveBodyPrepends(theses, thesis_data, clock, uuid) ==
    IF NoId(thesis_data)
    THEN LET i == FirstIndex({k \in 1..Len(theses) :
                                    SameContent(theses[k], thesis_data)})
         IN  IF i # 0
             THEN LET d == Put(Put(thesis_data, "id", theses[i]["id"]),
                               "updated_at", clock)
                  IN  [theses |-> [theses EXCEPT ![i] = d], data |-> d,
                       path |-> "dedup"]
             ELSE LET d == Put(Put(thesis_data, "id", uuid), "created_at", clock)
                  IN  [theses |-> <<d>> \o theses, data |-> d, path |-> "create"]
    ELSE LET d == Put(thesis_data, "updated_at", clock)
             i == FirstIndex({k \in 1..Len(theses) : theses[k]["id"] = d["id"]})
         IN  IF i # 0
             THEN [theses |-> [theses EXCEPT ![i] = d], data |-> d,
                   path |-> "update"]
             ELSE [theses |-> <<d>> \o theses, data |-> d, path |-> "recover"]

\* lines 44-69: the list and the dict save_thesis ends up with, and the branch
\* taken ("create" draws the uuid)
SaveBody(theses, thesis_data, clock, uuid) ==
    IF NoId(thesis_data)
    THEN LET i == FirstIndex({k \in 1..Len(theses) :
                                    SameContent(theses[k], thesis_data)})
         IN  IF i # 0
             THEN LET d == Put(Put(thesis_data, "id", theses[i]["id"]),
                               "updated_at", clock)
                  IN  [theses |-> [theses EXCEPT ![i] = d], data |-> d,
                       path |-> "dedup"]
             ELSE LET d == Put(Put(thesis_data, "id", uuid), "created_at", clock)
                  IN  [theses |-> Append(theses, d), data |-> d, path |-> "create"]
    ELSE LET d == Put(thesis_data, "updated_at", clock)
             i == FirstIndex({k \in 1..Len(theses) : theses[k]["id"] = d["id"]})
         IN  IF i # 0
             THEN [theses |-> [theses EXCEPT ![i] = d], data |-> d,
                   path |-> "update"]
             ELSE [theses |-> Append(theses, d), data |-> d, path |-> "recover"]

\* lines 31-42: what save_thesis works on after loading; the test of line 41
\* comes after the fallback of line 32
SaveLoaded(file, rd) == NoneFallback(load_theses(file, rd))

LoadFailedMsg == "Failed to load existing theses (File Access Error)."

\* save_thesis(thesis_data): the file afterwards, the value returned, the
\* branch taken and the dict as the caller sees it afterwards
save_thesis(file, thesis_data, rd, wr, clock, uuid) ==
    LET loaded == SaveLoaded(file, rd)
    IN  IF loaded.none
        THEN [file |-> file, ret |-> <<FALSE, LoadFailedMsg>>,
              path |-> "load_failed", data |-> thesis_data]
        ELSE LET b == SaveBody(loaded.theses, thesis_data, clock, uuid)
             IN  [file |-> WriteFile(file, b.theses, wr),
                  ret  |-> IF wr = "ok" THEN <<TRUE, b.data["id"]>>
                                        ELSE <<FALSE, wr>>,
                  path |-> b.path, data |-> b.data]

\* the records in front of the first one with the id
UpToId(theses, thesis_id) ==
    SubSeq(theses, 1,
           FirstIndex({i \in 1..Len(theses) : theses[i]["id"] = thesis_id}) - 1)

\* lines 83-84
WithoutId(theses, thesis_id) ==
    SelectSeq(theses, LAMBDA t : t["id"] # thesis_id)

\* delete_thesis without the guard of line 81: a failed load is taken for []
\* and the "not found" test of line 86 is skipped
delete_thesis_unguarded(file, thesis_id, rd, wr) ==
    LET loaded == NoneFallback(load_theses(file, rd))
        kept == WithoutId(loaded.theses, thesis_id)
    IN  [file |-> WriteFile(file, kept, wr), ret |-> wr = "ok", path |-> "removed"]

\* delete_thesis(thesis_id): the file afterwards, the value returned and the
\* branch taken
delete_thesis(file, thesis_id, rd, wr) ==
    LET loaded == load_theses(file, rd)
    IN  IF loaded.none
        THEN [file |-> file, ret |-> FALSE, path |-> "load_failed"]
        ELSE LET kept == WithoutId(loaded.theses, thesis_id)
             IN  IF Len(kept) = Len(loaded.theses)
                 THEN [file |-> file, ret |-> FALSE, path |-> "not_found"]
                 ELSE [file |-> WriteFile(file, kept, wr), ret |-> wr = "ok",
                       path |-> "removed"]

\* ------------------------------------------------------------------ inputs
Tickers == {"AAPL", "MSFT"}
Statements == {<<"a">>, <<"a", " ">>, <<"b">>}

\* the records of the file, as a reader that succeeds sees them
Stored(file) == IF file.kind = "json" THEN file.data ELSE <<>>

StoredSet(file) == {Stored(file)[i] : i \in 1..Len(Stored(file))}

\* a dict built from scratch: without an 'id' key (given = EmptyId), or with
\* the id of a record that was stored at some time
FreshDict(given, tk, s) ==
    IF given = EmptyId
    THEN [ticker |-> tk, thesis_statement |-> s]
    ELSE [id |-> given, ticker |-> tk, thesis_statement |-> s]

\* a copy of a stored record with the statement edited, as the journal's
\* editor builds it (t.copy() then update)
EditedDict(t, s) == Put(t, "thesis_statement", s)

\* the id a caller passed, EmptyId when it passed none
GivenId(thesis_data) == IF NoId(thesis_data) THEN EmptyId ELSE thesis_data["id"]

\* --------------------------------------------------- app.py: the draft form
\* the options of the "Time Horizon" selectbox
HorizonOptions == {"1-3 Months", "3-6 Months", "6-12 Months", "1+ Year"}
DefaultHorizon == "3-6 Months"

\* st.slider("Confidence Level", 1, 10, ...)
SliderMin == 1
SliderMax == 10
DefaultConfidence == 5

DefaultTicker == "AAPL"

\* lines 453-459: the draft keys as the first run of the script sets them
EmptyDraft ==
    [draft_thesis_id     |-> EmptyId,
     draft_fn_statement  |-> <<>>,
     draft_fn_condition  |-> <<>>,
     draft_fn_horizon    |-> DefaultHorizon,
     draft_fn_confidence |-> DefaultConfidence]

\* d.get(k, default)
Get(d, k, default) == IF k \in DOMAIN d THEN d[k] ELSE default

\* a JSON value is a pair <<type, value>>; a float carries its value in tenths
JInt(n) == <<"int", n>>
JFloat(tenths) == <<"float", tenths>>
JStr(x) == <<"str", x>>

\* int(x): truncation of a float; ValueError for a text that is no integer
IntRaises(x) == x[1] = "str"
IntOf(x) == IF x[1] = "float" THEN x[2] \div 10 ELSE x[2]

\* what generate_thesis can return: json.loads of the model's reply, any
\* subset of the keys with any values, or a dict with 'error'
DraftTexts == {<<"a">>}
GeneratedConfidences == {JInt(50), JFloat(75), JStr(0)}
GeneratedHorizons == {"1+ Year", "2 Years"}

Optional(S) == {<<>>} \cup {<<x>> : x \in S}

\* the dict with the keys whose option is present
MakeDict(error, statement, condition, confidence, horizon) ==
    LET keys == (IF error # <<>> THEN {"error"} ELSE {})
                \cup (IF statement # <<>> THEN {"thesis_statement"} ELSE {})
                \cup (IF condition # <<>> THEN {"falsification_condition"} ELSE {})
                \cup (IF confidence # <<>> THEN {"confidence"} ELSE {})
                \cup (IF horizon # <<>> THEN {"time_horizon"} ELSE {})
    IN  [k \in keys |->
            CASE k = "error" -> error[1]
              [] k = "thesis_statement" -> statement[1]
              [] k = "falsification_condition" -> condition[1]
              [] k = "confidence" -> confidence[1]
              [] k = "time_horizon" -> horizon[1]]

\* lines 483-492: what the Auto-Generate branch leaves in session_state; an
\* exception of int() ends the script run after lines 484-485
AfterGenerate(state, generated) ==
    IF DOMAIN generated # {} /\ "error" \notin DOMAIN generated
    THEN LET s1 == [state EXCEPT
                      !.draft_fn_statement = Get(generated, "thesis_statement", <<>>),
                      !.draft_fn_condition =
                          Get(generated, "falsification_condition", <<>>)]
             c == Get(generated, "confidence", JInt(DefaultConfidence))
             h == Get(generated, "time_horizon", DefaultHorizon)
         IN  IF IntRaises(c) THEN s1
             ELSE [s1 EXCEPT
                      !.draft_fn_confidence = IntOf(c),
                      !.draft_fn_horizon =
                          IF h \notin HorizonOptions THEN DefaultHorizon ELSE h]
    ELSE state

\* line 499: the keyed slider shows the session value; a build that checks the
\* range raises on a value outside min..max, which ends the script run there
SliderRenders(state) ==
    \/ ~ slider_validates
    \/ state.draft_fn_confidence \in SliderMin..SliderMax

\* lines 505-513
thesis_to_save(state, ticker) ==
    [id                      |-> state.draft_thesis_id,
     ticker                  |-> ticker,
     thesis_statement        |-> state.draft_fn_statement,
     falsification_condition |-> state.draft_fn_condition,
     time_horizon            |-> state.draft_fn_horizon,
     confidence              |-> state.draft_fn_confidence,
     status                  |-> "Active"]

\* lines 515-520
AfterSaved(state) ==
    [state EXCEPT !.draft_fn_statement = <<>>,
                  !.draft_fn_condition = <<>>,
                  !.draft_fn_confidence = DefaultConfidence,
                  !.draft_thesis_id = EmptyId]

\* lines 553-557
AfterEdit(state, t) ==
    [draft_thesis_id     |-> t["id"],
     draft_fn_statement  |-> t["thesis_statement"],
     draft_fn_condition  |-> t["falsification_condition"],
     draft_fn_horizon    |-> t["time_horizon"],
     draft_fn_confidence |-> t["confidence"]]

\* lines 648-654
updated_thesis(t, new_statement, new_condition, new_horizon, new_conf) ==
    Put(Put(Put(Put(t, "thesis_statement", new_statement),
                "falsification_condition", new_condition),
            "time_horizon", new_horizon),
        "confidence", new_conf)

\* ------------------------------------------------------------ the caches
\* date.today().isoformat() at clock value t
DateOf(t) == t \div TicksPerDay

\* {} and a file that does not exist
EmptyDict == [k \in {} |-> 0]
MissingCache == [kind |-> "missing", data |-> EmptyDict]

\* del d[k]
Remove(d, k) == [x \in (DOMAIN d) \ {k} |-> d[x]]

\* str.upper(), a ticker being a sequence of characters
UpperChar(c) ==
    CASE c = "a" -> "A"
      [] c = "b" -> "B"
      [] c = "c" -> "C"
      [] OTHER   -> c

upper(ticker) == [i \in 1..Len(ticker) |-> UpperChar(ticker[i])]

\* Optional[Dict]
NoneValue == [none |-> TRUE]
Value(d) == [none |-> FALSE, value |-> d]

\* a write that left the file with something else than what the caller meant:
\* json.dump failed midway ("miswritten"), or the dict written was built on a
\* failed read ("misread")
Damaging(rd, wr) ==
    IF wr \in {"dump_empty", "dump_partial"} THEN "miswritten"
    ELSE IF rd = "err" /\ wr = "ok" THEN "misread"
    ELSE "none"

\* load_cache() of both managers: {} for a missing, empty, undecodable or
\* unreadable file
load_cache(file, rd) ==
    IF file.kind = "missing" THEN EmptyDict
    ELSE IF rd = "err" THEN EmptyDict
    ELSE IF file.kind = "empty" THEN EmptyDict
    ELSE IF file.kind = "invalid" THEN EmptyDict
    ELSE file.data

\* ------------------------------------------------ earnings_cache_manager
\* get_cached_earnings without the day test
get_cached_earnings_any_day(file, ticker, rd, clock) ==
    LET cache == load_cache(file, rd)
    IN  IF upper(ticker) \notin DOMAIN cache THEN NoneValue
        ELSE Value(cache[upper(ticker)]["data"])

\* get_cached_earnings(ticker)
get_cached_earnings(file, ticker, rd, clock) ==
    LET cache == load_cache(file, rd)
    IN  IF upper(ticker) \notin DOMAIN cache THEN NoneValue
        ELSE IF cache[upper(ticker)]["cached_date"] # DateOf(clock) THEN NoneValue
        ELSE Value(cache[upper(ticker)]["data"])

\* save_earnings keyed by the ticker as given
save_earnings_as_given(file, ticker, data, rd, wr, clock) ==
    LET entry == [data |-> data, cached_date |-> DateOf(clock), cached_at |-> clock]
        cache == Put(load_cache(file, rd), ticker, entry)
    IN  [file |-> WriteFile(file, cache, wr), ret |-> wr = "ok",
         fault |-> Damaging(rd, wr)]

\* save_earnings(ticker, data)
save_earnings(file, ticker, data, rd, wr, clock) ==
    LET entry == [data |-> data, cached_date |-> DateOf(clock), cached_at |-> clock]
        cache == Put(load_cache(file, rd), upper(ticker), entry)
    IN  [file |-> WriteFile(file, cache, wr), ret |-> wr = "ok",
         fault |-> Damaging(rd, wr)]

\* invalidate_cache of earnings_cache_manager writing an empty cache back
earnings_invalidate_cache_all(file, ticker, rd, wr) ==
    LET cache == load_cache(file, rd)
    IN  IF upper(ticker) \notin DOMAIN cache
        THEN [file |-> file, ret |-> FALSE, fault |-> "none"]
        ELSE [file |-> WriteFile(file, EmptyDict, wr),
              ret |-> wr = "ok", fault |-> Damaging(rd, wr)]

\* invalidate_cache(ticker) of earnings_cache_manager
earnings_invalidate_cache(file, ticker, rd, wr) ==
    LET cache == load_cache(file, rd)
    IN  IF upper(ticker) \notin DOMAIN cache
        THEN [file |-> file, ret |-> FALSE, fault |-> "none"]
        ELSE [file |-> WriteFile(file, Remove(cache, upper(ticker)), wr),
              ret |-> wr = "ok", fault |-> Damaging(rd, wr)]

\* -------------------------------------------------- sankey_cache_manager
\* get_cached_structure(ticker)
get_cached_structure(file, ticker, rd) ==
    LET cache == load_cache(file, rd)
    IN  IF upper(ticker) \notin DOMAIN cache THEN NoneValue
        ELSE Value(cache[upper(ticker)]["structure"])

\* save_structure dropping the entries of the other tickers
save_structure_alone(file, ticker, structure, rd, wr, clock) ==
    LET entry == [structure |-> structure, cached_at |-> clock]
        cache == Put(EmptyDict, upper(ticker), entry)
    IN  [file |-> WriteFile(file, cache, wr), ret |-> wr = "ok",
         fault |-> Damaging(rd, wr)]

\* save_structure(ticker, structure)
save_structure(file, ticker, structure, rd, wr, clock) ==
    LET entry == [structure |-> structure, cached_at |-> clock]
        cache == Put(load_cache(file, rd), upper(ticker), entry)
    IN  [file |-> WriteFile(file, cache, wr), ret |-> wr = "ok",
         fault |-> Damaging(rd, wr)]

\* invalidate_cache writing the file back whether or not the entry was found
sankey_invalidate_cache_unguarded(file, ticker, rd, wr) ==
    LET cache == load_cache(file, rd)
    IN  [file |-> WriteFile(file, Remove(cache, upper(ticker)), wr),
         ret |-> wr = "ok", fault |-> Damaging(rd, wr)]

\* invalidate_cache(ticker) of sankey_cache_manager
sankey_invalidate_cache(file, ticker, rd, wr) ==
    LET cache == load_cache(file, rd)
    IN  IF upper(ticker) \notin DOMAIN cache
        THEN [file |-> file, ret |-> FALSE, fault |-> "none"]
        ELSE [file |-> WriteFile(file, Remove(cache, upper(ticker)), wr),
              ret |-> wr = "ok", fault |-> Damaging(rd, wr)]

\* ------------------------------------------- obb_utils.get_calendar_events
\* what the FMP request gives: no API key in the environment, an exception or
\* a reply that is not a non-empty list, a list without a future date, a list
\* with one
FmpOutcomes == {"nokey", "error", "none_found", "found"}
\* what ticker.calendar gives: an exception or nothing, or dates
YfOutcomes == {"error", "dates"}

DatesFMP == [next_earnings |-> "2026-12-01", source |-> "FMP"]
DatesYF == [next_earnings |-> "2026-12-02", source |-> "yfinance"]

\* a save_earnings call that is not reached
NoSave(file) == [file |-> file, ret |-> TRUE, fault |-> "none"]

\* get_calendar_events answering from the providers without asking the cache
get_calendar_events_uncached(file, ticker, fmp, yf, io, clock) ==
    LET s1 == save_earnings(file, ticker, DatesYF, io.rd3, io.wr3, clock)
    IN  [file |-> s1.file, ret |-> DatesYF, contacted |-> {"yfinance"},
         save1 |-> NoSave(file), save2 |-> s1, saved |-> TRUE]

\* get_calendar_events(ticker_symbol): the file afterwards, the dict returned,
\* the providers contacted and the outcome of the two save_earnings
\* calls (lines 351 and 399)
get_calendar_events(file, ticker, fmp, yf, io, clock) ==
    LET cached == get_cached_earnings(file, ticker, io.rd1, clock)
    IN  IF ~ cached.none
        THEN [file |-> file, ret |-> cached.value, contacted |-> {},
              save1 |-> NoSave(file), save2 |-> NoSave(file), saved |-> FALSE]
        ELSE IF fmp = "found"
        THEN LET s1 == save_earnings(file, ticker, DatesFMP,
                                     io.rd2, io.wr2, clock)
             IN  [file |-> s1.file, ret |-> DatesFMP, contacted |-> {"FMP"},
                  save1 |-> s1, save2 |-> NoSave(s1.file), saved |-> TRUE]
        ELSE LET s1 == IF fmp = "none_found"
                       THEN save_earnings(file, ticker, EmptyDict,
                                          io.rd2, io.wr2, clock)
                       ELSE NoSave(file)
                 dates == IF yf = "dates" THEN DatesYF ELSE EmptyDict
                 s2 == save_earnings(s1.file, ticker, dates,
                                     io.rd3, io.wr3, clock)
             IN  [file |-> s2.file, ret |-> dates,
                  contacted |-> (IF fmp = "nokey" THEN {} ELSE {"FMP"})
                                \cup {"yfinance"},
                  save1 |-> s1, save2 |-> s2, saved |-> TRUE]

\* ------------------------------------------------------- the cache ghosts
NoPromise == [earnings |-> EmptyDict, sankey |-> EmptyDict]

\* a fault on the file: the entries it held are no longer vouched for
Tainted(pr, fault) ==
    [k \in DOMAIN pr |->
        IF fault = "none" \/ pr[k].kind # "saved" \/ pr[k].intact = "miswritten"
        THEN pr[k]
        ELSE [pr[k] EXCEPT !.intact = fault]]

\* after a save for key: the entry saved when the save succeeded, nothing
\* when it failed
AfterSave(pr, key, r, data, clock, by) ==
    IF r.ret
    THEN Put(Tainted(pr, r.fault), key,
             [kind |-> "saved", data |-> data, date |-> DateOf(clock),
              intact |-> "yes", by |-> by, ok |-> TRUE])
    ELSE Remove(Tainted(pr, r.fault), key)

\* after an invalidate for key
AfterInvalidate(pr, key, r) ==
    Put(Tainted(pr, r.fault), key,
        [kind |-> "invalidated", data |-> EmptyDict, date |-> 0,
         intact |-> "yes", by |-> "invalidate_cache", ok |-> r.ret])

\* ------------------------------------------------- utils.get_sankey_data
\* a float: a number or nan
NaN == [nan |-> TRUE, v |-> 0]
Num(n) == [nan |-> FALSE, v |-> n]
\* a row the statement does not have
Absent == [absent |-> TRUE]

\* abs(x), x - y, x * y, x > 0 and x <= 0 on floats; every comparison with
\* nan is False
Abs(x) == IF x.nan THEN x ELSE Num(IF x.v < 0 THEN 0 - x.v ELSE x.v)
Sub(x, y) == IF x.nan \/ y.nan THEN NaN ELSE Num(x.v - y.v)
Mul(x, n) == IF x.nan THEN NaN ELSE Num(x.v * n)
Positive(x) == (~ x.nan) /\ x.v > 0
NotPositive(x) == (~ x.nan) /\ x.v <= 0

\* float(s['value']) * 1e9
Billion == 1000000000

\* the rows get_sankey_data reads from the most recent column
StatementFields ==
    {"Cost Of Revenue", "Gross Profit", "Operating Expense",
     "Research And Development", "Selling General And Administration",
     "Operating Income", "Tax Provision", "Net Income"}

\* recent.get(field, 0)
recent_get(recent, field) ==
    IF recent[field] = Absent THEN Num(0) ELSE recent[field]

\* the lists get_sankey_data builds
NoLinks == [label |-> <<>>, source |-> <<>>, target |-> <<>>, value |-> <<>>]

\* labels.index(name), counted from 0
index(labels, name) ==
    (CHOOSE i \in 1..Len(labels) :
        /\ labels[i] = name
        /\ \A j \in 1..(i - 1) : labels[j] # name) - 1

\* get_idx(name, color): the labels afterwards
get_idx(labels, name) ==
    IF \E i \in 1..Len(labels) : labels[i] = name
    THEN labels ELSE Append(labels, name)

\* add_link(src_name, src_color, tgt_name, tgt_color, val, link_color)
add_link(g, src_name, tgt_name, val) ==
    IF NotPositive(val) THEN g
    ELSE LET l1 == get_idx(g.label, src_name)
             l2 == get_idx(l1, tgt_name)
         IN  [label  |-> l2,
              source |-> Append(g.source, index(l2, src_name)),
              target |-> Append(g.target, index(l2, tgt_name)),
              value  |-> Append(g.value, val)]

\* float(x.get('value', 0)), the key the segments are sorted by
SegmentKey(s) == IF "value" \in DOMAIN s THEN s["value"] ELSE Num(0)

\* sorted(segs, key=..., reverse=True): stable, largest first (the inputs
\* hold no nan next to another segment)
RECURSIVE InsertSegment(_, _)
InsertSegment(sorted, s) ==
    IF sorted = <<>> THEN <<s>>
    ELSE IF SegmentKey(Head(sorted)).v >= SegmentKey(s).v
    THEN <<Head(sorted)>> \o InsertSegment(Tail(sorted), s)
    ELSE <<s>> \o sorted

RECURSIVE sorted_segs(_)
sorted_segs(segs) ==
    IF segs = <<>> THEN <<>>
    ELSE InsertSegment(sorted_segs(SubSeq(segs, 1, Len(segs) - 1)),
                       segs[Len(segs)])

\* the loop of lines 729-732: it ends at the first segment without a 'value'
\* (KeyError, swallowed by the except of line 733), keeping the links added
RECURSIVE SegmentLinks(_, _)
SegmentLinks(g, segs) ==
    IF segs = <<>> THEN g
    ELSE IF "value" \notin DOMAIN Head(segs) THEN g
    ELSE SegmentLinks(add_link(g, Head(segs)["label"], "Total Revenue",
                               Mul(Head(segs)["value"], Billion)),
                      Tail(segs))

\* lines 726-734: json.loads(segments_json) and the links of the segments
LinksOfSegments(segments_json) ==
    IF ~ segments_json.valid THEN NoLinks
    ELSE SegmentLinks(NoLinks, sorted_segs(segments_json.segs))

\* lines 737-755: the links of the income statement
LinksOfStatement(g0, recent) ==
    LET cogs == Abs(recent_get(recent, "Cost Of Revenue"))
        gross_profit == Abs(recent_get(recent, "Gross Profit"))
        op_expense == Abs(recent_get(recent, "Operating Expense"))
        rd == Abs(recent_get(recent, "Research And Development"))
        sga == Abs(recent_get(recent, "Selling General And Administration"))
        op_income == Abs(recent_get(recent, "Operating Income"))
        tax == Abs(recent_get(recent, "Tax Provision"))
        net_income == Abs(recent_get(recent, "Net Income"))
        remaining_opex == Sub(Sub(op_expense, rd), sga)
        g1 == add_link(g0, "Total Revenue", "Cost of Revenue", cogs)
        g2 == add_link(g1, "Total Revenue", "Gross Profit", gross_profit)
        g3 == IF Positive(rd) THEN add_link(g2, "Gross Profit", "R&D", rd) ELSE g2
        g4 == IF Positive(sga) THEN add_link(g3, "Gross Profit", "SG&A", sga) ELSE g3
        g5 == IF Positive(remaining_opex)
              THEN add_link(g4, "Gross Profit", "Other OpEx", remaining_opex)
              ELSE g4
        g6 == add_link(g5, "Gross Profit", "Operating Income", op_income)
        g7 == add_link(g6, "Operating Income", "Tax", tax)
    IN  add_link(g7, "Operating Income", "Net Income", net_income)

\* an income statement without columns
EmptyStatement == [empty |-> TRUE]

\* get_sankey_data(ticker_symbol, financials, segments_json): None for an
\* empty income statement, else the lists of the diagram. The function takes
\* no agent and reads neither the structure cache nor the ticker.
get_sankey_data(ticker, income_stmt, segments_json) ==
    IF income_stmt = EmptyStatement THEN NoneValue
    ELSE Value(LinksOfStatement(LinksOfSegments(segments_json), income_stmt))

\* ------------------------------------------------------- agent.StockAgent
\* Python values: a str (with or without a ``` fence around its chunks), a
\* list, a dict, an int, None
Text(chunks) == [type |-> "str", fence |-> FALSE, body |-> chunks]
Fenced(chunks) == [type |-> "str", fence |-> TRUE, body |-> chunks]
List(items) == [type |-> "list", items |-> items]
Dict(d) == [type |-> "dict", dict |-> d]
PyInt(n) == [type |-> "int", int |-> n]
PyNone == [type |-> "none"]

\* clean_json_text(text)
clean_json_text(text) == [text EXCEPT !.fence = FALSE]

\* the texts the model can reply with
ProseReply == <<"The outlook is mixed, with upside.">>
ListReply == <<"[\"MSFT\", \"GOOG\", \"AMZN\", \"META\", \"NFLX\"]">>
ThesisReply == <<"{\"thesis_statement\": \"a\", \"confidence\": 7}">>
StructureReply == <<"{\"nodes\": [], \"links\": []}">>
NumberReply == <<"5">>
NullReply == <<"null">>
StringReply == <<"\"", "nodes", " and ", "links", "\"">>
KeyListReply == <<"[\"nodes\", \"links\"]">>
PartialReply == <<"{\"nodes\": []}">>
JsonReplies ==
    {ListReply, ThesisReply, StructureReply, NumberReply, NullReply, StringReply,
     KeyListReply, PartialReply}

\* json.loads(text): the value, or a raise when the text is no JSON
json_loads(text) ==
    IF text.fence \/ text.body \notin JsonReplies
    THEN [raised |-> "JSONDecodeError"]
    ELSE CASE text.body = ListReply ->
                List(<<"MSFT", "GOOG", "AMZN", "META", "NFLX">>)
           [] text.body = ThesisReply ->
                Dict([thesis_statement |-> "a", confidence |-> 7])
           [] text.body = StructureReply ->
                Dict([nodes |-> <<>>, links |-> <<>>])
           [] text.body = NumberReply -> PyInt(5)
           [] text.body = NullReply -> PyNone
           [] text.body = StringReply -> Text(<<"nodes", " and ", "links">>)
           [] text.body = KeyListReply -> List(<<"nodes", "links">>)
           [] text.body = PartialReply -> Dict([nodes |-> <<>>])

\* what requests.post can do: time out, raise, answer with another status
\* than 200, answer without candidates, or answer with a text
HttpOutcomes ==
    {[kind |-> k] : k \in {"timeout", "exception", "status", "malformed"}}
    \cup {[kind |-> "text", fenced |-> fenced, body |-> body] :
              fenced \in BOOLEAN, body \in JsonReplies \cup {ProseReply}}

EmptyKey == ""
ApiKeys == {EmptyKey, "key"}

\* check_api_key()
check_api_key(api_key) == api_key # EmptyKey

\* _generate(prompt, use_json, use_pro): the text returned and whether a
\* request was posted
generate(api_key, http) ==
    IF api_key = EmptyKey
    THEN [text |-> Text(<<"Error: API Key missing.">>), posted |-> FALSE]
    ELSE [text |-> CASE http.kind = "timeout" -> Text(<<"Error: Request Timed Out">>)
                     [] http.kind = "exception" -> Text(<<"Error analyzing data: ", "e">>)
                     [] http.kind = "status" -> Text(<<"Error: API returned ", "500">>)
                     [] http.kind = "malformed" -> Text(<<"Error: Malformed API response">>)
                     [] http.kind = "text" ->
                          IF http.fenced THEN Fenced(http.body) ELSE Text(http.body),
          posted |-> TRUE]

\* a method that returned without calling _generate
Fallback(value) == [ret |-> value, posted |-> FALSE]
\* a method that returns the text _generate gave
Generated(api_key, http) ==
    [ret |-> generate(api_key, http).text, posted |-> generate(api_key, http).posted]

analyze_news(api_key, context_results, current_thesis, http) ==
    IF ~ check_api_key(api_key)
    THEN Fallback(Text(<<"Please provide a gemini API Key", " to see the summary.">>))
    ELSE Generated(api_key, http)

analyze_strategy(api_key, context_results, current_thesis, http) ==
    IF ~ check_api_key(api_key)
    THEN Fallback(Text(<<"Please provide a gemini API Key", ".">>))
    ELSE IF context_results = <<>>
    THEN Fallback(Text(<<"No details found for strategy analysis.">>))
    ELSE Generated(api_key, http)

analyze_strategic_intelligence(api_key, context_results, current_thesis, http) ==
    IF ~ check_api_key(api_key)
    THEN Fallback(Text(<<"Please provide a gemini API Key", ".">>))
    ELSE Generated(api_key, http)

\* analyze_events without its test of the key
analyze_events_unguarded(api_key, context_results, current_thesis, http) ==
    Generated(api_key, http)

analyze_events(api_key, context_results, current_thesis, http) ==
    IF ~ check_api_key(api_key)
    THEN Fallback(Text(<<"No API Key.">>))
    ELSE Generated(api_key, http)

analyze_financials(api_key, context_results, current_thesis, http) ==
    IF ~ check_api_key(api_key)
    THEN Fallback(Text(<<"No API Key.">>))
    ELSE IF context_results = <<>>
    THEN Fallback(Text(<<"No financial analysis found.">>))
    ELSE Generated(api_key, http)

extract_revenue_segments(api_key, context_results, current_thesis, http) ==
    IF ~ check_api_key(api_key) THEN Fallback(Text(<<"[]">>))
    ELSE IF context_results = <<>> THEN Fallback(Text(<<"[]">>))
    ELSE [ret |-> clean_json_text(generate(api_key, http).text),
          posted |-> generate(api_key, http).posted]

\* .strip() leaves the replies of the model, which have no outer blanks
identify_core_driver(api_key, context_results, current_thesis, http) ==
    IF ~ check_api_key(api_key) THEN Fallback(Text(<<"N/A">>))
    ELSE Generated(api_key, http)

\* result[:4]
FirstFour(items) == SubSeq(items, 1, IF Len(items) < 4 THEN Len(items) ELSE 4)

identify_competitors(api_key, context_results, current_thesis, http) ==
    IF ~ check_api_key(api_key) THEN Fallback(List(<<>>))
    ELSE LET result == json_loads(clean_json_text(generate(api_key, http).text))
         IN  [ret |-> IF "raised" \in DOMAIN result THEN List(<<>>)
                      ELSE IF result.type = "list" THEN List(FirstFour(result.items))
                      ELSE List(<<>>),
              posted |-> generate(api_key, http).posted]

\* [k.strip() for k in res.split(',') if k.strip()], the chunks of a text
\* standing for its comma-separated parts
get_branding_keywords(api_key, context_results, current_thesis, http) ==
    IF ~ check_api_key(api_key) THEN Fallback(List(<<>>))
    ELSE [ret |-> List(generate(api_key, http).text.body),
          posted |-> generate(api_key, http).posted]

generate_thesis(api_key, context_results, current_thesis, http) ==
    IF ~ check_api_key(api_key)
    THEN Fallback(Dict([error |-> "No API Key"]))
    ELSE LET result == json_loads(clean_json_text(generate(api_key, http).text))
         IN  [ret |-> IF "raised" \in DOMAIN result
                      THEN Dict([error |-> "Failed to parse thesis"])
                      ELSE result,
              posted |-> generate(api_key, http).posted]

refine_thesis(api_key, context_results, current_thesis, http) ==
    IF ~ check_api_key(api_key) THEN Fallback(current_thesis)
    ELSE LET result == json_loads(clean_json_text(generate(api_key, http).text))
         IN  [ret |-> IF "raised" \in DOMAIN result THEN current_thesis
                      ELSE result,
              posted |-> generate(api_key, http).posted]

\* key in structure: a key of a dict, an item of a list, a part of a str;
\* TypeError for an int or None
key_in(key, structure) ==
    CASE structure.type = "dict" -> [raised |-> FALSE, found |-> key \in DOMAIN structure.dict]
      [] structure.type = "list" ->
            [raised |-> FALSE,
             found |-> \E i \in DOMAIN structure.items : structure.items[i] = key]
      [] structure.type = "str" ->
            [raised |-> FALSE,
             found |-> \E i \in DOMAIN structure.body : structure.body[i] = key]
      [] OTHER -> [raised |-> TRUE, found |-> FALSE]

\* the except of line 578 catches json.JSONDecodeError only: the TypeError of
\* 'nodes' in structure leaves the method
infer_sankey_structure(api_key, context_results, current_thesis, http) ==
    IF ~ check_api_key(api_key) THEN Fallback(PyNone)
    ELSE LET result == json_loads(clean_json_text(generate(api_key, http).text))
         IN  [ret |-> IF "raised" \in DOMAIN result THEN PyNone
                      ELSE IF key_in("nodes", result).raised
                      THEN [raised |-> "TypeError"]
                      ELSE IF key_in("nodes", result).found
                              /\ key_in("links", result).found
                      THEN result
                      ELSE PyNone,
              posted |-> generate(api_key, http).posted]

\* the feature methods of StockAgent
Methods ==
    {"analyze_news", "analyze_strategy", "analyze_strategic_intelligence",
     "analyze_events", "analyze_financials", "extract_revenue_segments",
     "identify_core_driver", "identify_competitors", "get_branding_keywords",
     "generate_thesis", "refine_thesis", "infer_sankey_structure"}

\* StockAgent(api_key, ticker).<method>(...)
feature(method, api_key, context_results, current_thesis, http) ==
    CASE method = "analyze_news" ->
            analyze_news(api_key, context_results, current_thesis, http)
      [] method = "analyze_strategy" ->
            analyze_strategy(api_key, context_results, current_thesis, http)
      [] method = "analyze_strategic_intelligence" ->
            analyze_strategic_intelligence(api_key, context_results, current_thesis, http)
      [] method = "analyze_events" ->
            analyze_events(api_key, context_results, current_thesis, http)
      [] method = "analyze_financials" ->
            analyze_financials(api_key, context_results, current_thesis, http)
      [] method = "extract_revenue_segments" ->
            extract_revenue_segments(api_key, context_results, current_thesis, http)
      [] method = "identify_core_driver" ->
            identify_core_driver(api_key, context_results, current_thesis, http)
      [] method = "identify_competitors" ->
            identify_competitors(api_key, context_results, current_thesis, http)
      [] method = "get_branding_keywords" ->
            get_branding_keywords(api_key, context_results, current_thesis, http)
      [] method = "generate_thesis" ->
            generate_thesis(api_key, context_results, current_thesis, http)
      [] method = "refine_thesis" ->
            refine_thesis(api_key, context_results, current_thesis, http)
      [] method = "infer_sankey_structure" ->
            infer_sankey_structure(api_key, context_results, current_thesis, http)

\* ------------------------------------------------ utils.get_polymarket_data
LowerChar(c) ==
    CASE c = "A" -> "a"
      [] c = "B" -> "b"
      [] c = "C" -> "c"
      [] c = "D" -> "d"
      [] c = "Z" -> "z"
      [] OTHER   -> c

\* str.lower()
lower(s) == [i \in 1..Len(s) |-> LowerChar(s[i])]

\* term in title_lower
substring_in(term, s) ==
    \E i \in 1..(Len(s) + 1) :
        /\ i + Len(term) - 1 <= Len(s)
        /\ SubSeq(s, i, i + Len(term) - 1) = term

\* if company_name: / if extra_keywords:
truthy(optional) == optional # NoneValue /\ optional.value # <<>>

\* company_name.split() is empty: split()[0] raises IndexError
no_word(company_name) == \A i \in 1..Len(company_name) : company_name[i] = " "

\* company_name.split()[0], for a name that holds a word
first_word(company_name) ==
    LET starts == {i \in 1..Len(company_name) : company_name[i] # " "}
        a == CHOOSE i \in starts : \A j \in starts : i <= j
        b == CHOOSE j \in a..Len(company_name) :
                 /\ \A k \in a..j : company_name[k] # " "
                 /\ j = Len(company_name) \/ company_name[j + 1] = " "
    IN  SubSeq(company_name, a, b)

filter_terms(ticker, company_name, extra_keywords) ==
    {lower(ticker)}
    \cup (IF truthy(company_name) THEN {lower(first_word(company_name.value))} ELSE {})
    \cup (IF truthy(extra_keywords)
          THEN {lower(extra_keywords.value[i]) : i \in DOMAIN extra_keywords.value}
          ELSE {})

\* fetch_and_parse(query_term): the events of the answer, [] when the request
\* raised or the status is not 200
fetch_and_parse(response) == IF response.ok THEN response.events ELSE <<>>

\* event.get('title', mk.get('question'))
title_of(event) ==
    IF event.title # Absent THEN event.title
    ELSE IF event.markets[1].question # Absent THEN event.markets[1].question
    ELSE NoneValue

\* float(mk.get('volume', 0))
volume_of(mk) == IF "volume" \in DOMAIN mk THEN mk.volume ELSE 0

\* the odds shown: outcomes zipped with prices, or "Odds unavailable" when
\* either is no JSON
odds_display(mk) == IF mk.odds_json THEN "Yes: 50.0%" ELSE "Odds unavailable"

\* the loop over events_ticker + events_name: all_markets, or the raise of
\* title.lower() on None
RECURSIVE strict_filter(_, _, _, _)
strict_filter(events, terms, seen_slugs, all_markets) ==
    IF events = <<>> THEN [raised |-> FALSE, all_markets |-> all_markets]
    ELSE LET event == Head(events)
             seen == seen_slugs \cup {event.slug}
         IN  IF event.slug \in seen_slugs
             THEN strict_filter(Tail(events), terms, seen_slugs, all_markets)
             ELSE IF event.markets = <<>>
             THEN strict_filter(Tail(events), terms, seen, all_markets)
             ELSE IF title_of(event) = NoneValue
             THEN [raised |-> TRUE]
             ELSE IF ~ \E term \in terms : substring_in(term, lower(title_of(event).value))
             THEN strict_filter(Tail(events), terms, seen, all_markets)
             ELSE strict_filter(Tail(events), terms, seen,
                      Append(all_markets,
                             [title |-> title_of(event).value,
                              volume |-> volume_of(event.markets[1]),
                              odds |-> odds_display(event.markets[1]),
                              url |-> event.slug]))

\* list.sort(key=volume, reverse=True) kept ascending instead
RECURSIVE sort_ascending(_)
sort_ascending(markets) ==
    IF markets = <<>> THEN <<>>
    ELSE LET rest == sort_ascending(SubSeq(markets, 1, Len(markets) - 1))
             x == markets[Len(markets)]
             before == {i \in 0..Len(rest) : \A j \in 1..i : rest[j].volume <= x.volume}
             k == CHOOSE i \in before : \A j \in before : j <= i
         IN  SubSeq(rest, 1, k) \o <<x>> \o SubSeq(rest, k + 1, Len(rest))

\* list.sort(key=lambda x: x['volume'], reverse=True): stable, the larger
\* volume first
RECURSIVE sort_by_volume(_)
sort_by_volume(markets) ==
    IF markets = <<>> THEN <<>>
    ELSE LET rest == sort_by_volume(SubSeq(markets, 1, Len(markets) - 1))
             x == markets[Len(markets)]
             before == {i \in 0..Len(rest) : \A j \in 1..i : rest[j].volume >= x.volume}
             k == CHOOSE i \in before : \A j \in before : j <= i
         IN  SubSeq(rest, 1, k) \o <<x>> \o SubSeq(rest, k + 1, Len(rest))

TopN == 5

\* events_ticker + events_name
fetched_events(ticker, company_name, ticker_response, name_response) ==
    fetch_and_parse(ticker_response)
    \o (IF truthy(company_name) /\ lower(first_word(company_name.value)) # lower(ticker)
        THEN fetch_and_parse(name_response)
        ELSE <<>>)

\* any raise ends in the outer except, which returns []
get_polymarket_data(ticker, company_name, extra_keywords, ticker_response, name_response) ==
    IF truthy(company_name) /\ no_word(company_name.value) THEN <<>>
    ELSE LET found == strict_filter(
                          fetched_events(ticker, company_name, ticker_response, name_response),
                          filter_terms(ticker, company_name, extra_keywords), {}, <<>>)
         IN  IF found.raised THEN <<>>
             ELSE LET sorted == sort_by_volume(found.all_markets)
                  IN  SubSeq(sorted, 1, IF Len(sorted) < TopN THEN Len(sorted) ELSE TopN)

\* -------------------------------------------------------------- operations
\* no call in progress
NoCall == [op |-> "none"]

Idle == call.op = "none"

Init ==
    /\ theses_file = MissingFile
    /\ nextId = 1
    /\ now = 0
    /\ call = NoCall
    /\ ret = FALSE
    /\ session_state = EmptyDraft
    /\ ticker_symbol = DefaultTicker
    /\ slider_validates = FALSE
    /\ earnings_file = MissingCache
    /\ sankey_file = MissingCache
    /\ promise = NoPromise

DoSave(thesis_data, rd, wr) ==
    /\ Idle
    /\ CanRead(theses_file, rd)
    /\ \E r \in {save_thesis(theses_file, thesis_data, rd, wr, now, nextId)} :
           /\ r.path = "create" => nextId <= MaxIds
           /\ theses_file' = r.file
           /\ ret' = r.ret
           /\ nextId' = IF r.path = "create" THEN nextId + 1 ELSE nextId
           /\ call' = [op |-> "save_thesis", arg |-> thesis_data, rd |-> rd,
                       wr |-> wr, path |-> r.path, found |-> theses_file.kind]
    /\ UNCHANGED <<now, dashboard_vars, cache_vars>>

\* save_thesis called with a dict built from scratch
SaveThesis ==
    \E given \in 0..(nextId - 1), tk \in Tickers, s \in Statements,
       rd \in ReadOutcomes, wr \in WriteOutcomes :
        DoSave(FreshDict(given, tk, s), rd, wr)

\* save_thesis called with an edited copy of a stored record
SaveEdited ==
    \E i \in 1..Len(Stored(theses_file)), s \in Statements,
       rd \in ReadOutcomes, wr \in WriteOutcomes :
        DoSave(EditedDict(Stored(theses_file)[i], s), rd, wr)

DeleteThesis ==
    \E thesis_id \in 1..(nextId - 1), rd \in ReadOutcomes, wr \in WriteOutcomes :
        /\ Idle
        /\ CanRead(theses_file, rd)
        /\ \E r \in {delete_thesis(theses_file, thesis_id, rd, wr)} :
               /\ theses_file' = r.file
               /\ ret' = r.ret
               /\ call' = [op |-> "delete_thesis", arg |-> thesis_id, rd |-> rd,
                           wr |-> wr, path |-> r.path]
        /\ UNCHANGED <<nextId, now, dashboard_vars, cache_vars>>

\* the caller takes the returned value; the next call can start
Return ==
    /\ ~ Idle
    /\ call' = NoCall
    /\ ret' = FALSE
    /\ UNCHANGED <<theses_file, nextId, now, dashboard_vars, cache_vars>>

Tick ==
    /\ Idle
    /\ now < MaxNow
    /\ now' = now + 1
    /\ UNCHANGED <<theses_file, nextId, call, ret, dashboard_vars, cache_vars>>

Next == SaveThesis \/ SaveEdited \/ DeleteThesis \/ Return \/ Tick

Spec == Init /\ [][Next]_vars

\* ------------------------------------------------- the dashboard's handlers
\* the user's choices on the slider and in the selectbox
SliderChoices == {SliderMax}
HorizonChoices == {"1-3 Months"}

InitDashboard ==
    /\ theses_file = MissingFile
    /\ nextId = 1
    /\ now = 0
    /\ call = NoCall
    /\ ret = FALSE
    /\ session_state = EmptyDraft
    /\ ticker_symbol = DefaultTicker
    /\ slider_validates \in BOOLEAN
    /\ earnings_file = MissingCache
    /\ sankey_file = MissingCache
    /\ promise = NoPromise

\* what generate_thesis returned
GeneratedReplies ==
    {MakeDict(<<"No API Key">>, <<>>, <<>>, <<>>, <<>>)}
    \cup {MakeDict(<<>>, statement, condition, confidence, horizon) :
            statement \in Optional(DraftTexts), condition \in Optional(DraftTexts),
            confidence \in Optional(GeneratedConfidences),
            horizon \in Optional(GeneratedHorizons)}

\* the "Auto-Generate" button
AutoGenerate ==
    \E generated \in GeneratedReplies :
        /\ Idle
        /\ session_state' = AfterGenerate(session_state, generated)
        /\ UNCHANGED <<theses_file, nextId, now, call, ret, ticker_symbol,
                       slider_validates, cache_vars>>

\* the user types into a text area of the draft form
TypeText ==
    \E key \in {"draft_fn_statement", "draft_fn_condition"},
       text \in DraftTexts \cup {<<>>} :
        /\ Idle
        /\ session_state' = [session_state EXCEPT ![key] = text]
        /\ UNCHANGED <<theses_file, nextId, now, call, ret, ticker_symbol,
                       slider_validates, cache_vars>>

\* the user picks an option of the selectbox
SelectHorizon ==
    \E h \in HorizonChoices :
        /\ Idle
        /\ session_state' = [session_state EXCEPT !.draft_fn_horizon = h]
        /\ UNCHANGED <<theses_file, nextId, now, call, ret, ticker_symbol,
                       slider_validates, cache_vars>>

\* the user moves the slider
MoveSlider ==
    \E v \in SliderChoices :
        /\ Idle
        /\ SliderRenders(session_state)
        /\ session_state' = [session_state EXCEPT !.draft_fn_confidence = v]
        /\ UNCHANGED <<theses_file, nextId, now, call, ret, ticker_symbol,
                       slider_validates, cache_vars>>

\* the user enters another ticker in the sidebar
EnterTicker ==
    \E tk \in Tickers :
        /\ Idle
        /\ ticker_symbol' = tk
        /\ UNCHANGED <<theses_file, nextId, now, call, ret, session_state,
                       slider_validates, cache_vars>>

\* "Save to Journal": on_save_thesis, lines 501-522
OnSaveThesis ==
    \E rd \in ReadOutcomes, wr \in WriteOutcomes :
        /\ Idle
        /\ SliderRenders(session_state)
        /\ CanRead(theses_file, rd)
        /\ IF session_state.draft_fn_statement = <<>>
              \/ session_state.draft_fn_condition = <<>>
           THEN /\ call' = [op |-> "on_save_thesis", path |-> "incomplete"]
                /\ ret' = FALSE
                /\ UNCHANGED <<theses_file, nextId, session_state>>
           ELSE \E r \in {save_thesis(theses_file,
                                      thesis_to_save(session_state, ticker_symbol),
                                      rd, wr, now, nextId)} :
                    /\ r.path = "create" => nextId <= MaxDraftIds
                    /\ theses_file' = r.file
                    /\ ret' = r.ret
                    /\ nextId' = IF r.path = "create" THEN nextId + 1 ELSE nextId
                    /\ call' = [op |-> "on_save_thesis", path |-> r.path,
                                rd |-> rd, wr |-> wr]
                    /\ session_state' = IF r.ret[1] THEN AfterSaved(session_state)
                                        ELSE session_state
        /\ UNCHANGED <<now, ticker_symbol, slider_validates, cache_vars>>

\* the "Edit" button of a thesis of the current ticker, lines 552-558
EditButton ==
    \E i \in 1..Len(Stored(theses_file)) :
        /\ Idle
        /\ SliderRenders(session_state)
        /\ Stored(theses_file)[i]["ticker"] = ticker_symbol
        /\ session_state' = AfterEdit(session_state, Stored(theses_file)[i])
        /\ UNCHANGED <<theses_file, nextId, now, call, ret, ticker_symbol,
                       slider_validates, cache_vars>>

\* the delete buttons, lines 548-549 and 684-685
DeleteButton ==
    \E i \in 1..Len(Stored(theses_file)), rd \in ReadOutcomes, wr \in WriteOutcomes :
        /\ Idle
        /\ \E r \in {delete_thesis(theses_file, Stored(theses_file)[i]["id"], rd, wr)} :
               /\ theses_file' = r.file
               /\ ret' = r.ret
               /\ call' = [op |-> "delete_thesis",
                           arg |-> Stored(theses_file)[i]["id"], rd |-> rd,
                           wr |-> wr, path |-> r.path]
        /\ UNCHANGED <<nextId, now, dashboard_vars, cache_vars>>

\* the journal page's inline editor, lines 629-657: the slider of line 643 is
\* built with value = int(t['confidence']) and raises outside 1..10
JournalSave ==
    \E i \in 1..Len(Stored(theses_file)), new_statement \in DraftTexts,
       new_condition \in DraftTexts, new_horizon \in HorizonChoices,
       new_conf \in SliderChoices, rd \in ReadOutcomes, wr \in WriteOutcomes :
        /\ Idle
        /\ Stored(theses_file)[i]["confidence"] \in SliderMin..SliderMax
        /\ \E r \in {save_thesis(theses_file,
                        updated_thesis(Stored(theses_file)[i], new_statement,
                                       new_condition, new_horizon, new_conf),
                        rd, wr, now, nextId)} :
               /\ r.path = "create" => nextId <= MaxDraftIds
               /\ theses_file' = r.file
               /\ ret' = r.ret
               /\ nextId' = IF r.path = "create" THEN nextId + 1 ELSE nextId
               /\ call' = [op |-> "journal_save", path |-> r.path,
                           rd |-> rd, wr |-> wr]
        /\ UNCHANGED <<now, dashboard_vars, cache_vars>>

NextDashboard ==
    \/ AutoGenerate \/ TypeText \/ SelectHorizon \/ MoveSlider \/ EnterTicker
    \/ OnSaveThesis \/ EditButton \/ DeleteButton \/ JournalSave \/ Return

SpecDashboard == InitDashboard /\ [][NextDashboard]_vars

\* ------------------------------------------------- the cache operations
\* tickers as callers pass them
TickerInputs == {<<"a", "b">>, <<"A", "b">>, <<"A", "B">>, <<"C">>}
EarningsData == {EmptyDict, DatesFMP}
StructA == [nodes |-> <<"Revenue", "Net Income">>,
            links |-> <<<<"Revenue", "Net Income">>>>]
StructB == [nodes |-> <<"Revenue">>, links |-> <<>>]
Structures == {StructA, StructB}

theses_and_dashboard_vars ==
    <<theses_file, nextId, session_state, ticker_symbol, slider_validates>>

SaveEarnings ==
    \E ticker \in TickerInputs, data \in EarningsData,
       rd \in ReadOutcomes, wr \in WriteOutcomes :
        /\ Idle
        /\ CanRead(earnings_file, rd)
        /\ \E r \in {save_earnings(earnings_file, ticker, data, rd, wr, now)} :
               /\ earnings_file' = r.file
               /\ ret' = r.ret
               /\ promise' = [promise EXCEPT !.earnings =
                     AfterSave(@, upper(ticker), r, data, now, "save_earnings")]
               /\ call' = [op |-> "save_earnings", ticker |-> ticker,
                           rd |-> rd, wr |-> wr]
        /\ UNCHANGED <<now, sankey_file, theses_and_dashboard_vars>>

GetCachedEarnings ==
    \E ticker \in TickerInputs, rd \in ReadOutcomes :
        /\ Idle
        /\ CanRead(earnings_file, rd)
        /\ ret' = get_cached_earnings(earnings_file, ticker, rd, now)
        /\ call' = [op |-> "get_cached_earnings", ticker |-> ticker, rd |-> rd]
        /\ UNCHANGED <<now, earnings_file, sankey_file, promise,
                       theses_and_dashboard_vars>>

InvalidateEarnings ==
    \E ticker \in TickerInputs, rd \in ReadOutcomes, wr \in WriteOutcomes :
        /\ Idle
        /\ CanRead(earnings_file, rd)
        /\ \E r \in {earnings_invalidate_cache(earnings_file, ticker, rd, wr)} :
               /\ earnings_file' = r.file
               /\ ret' = r.ret
               /\ promise' = [promise EXCEPT !.earnings =
                                 AfterInvalidate(@, upper(ticker), r)]
               /\ call' = [op |-> "earnings_invalidate_cache", ticker |-> ticker,
                           rd |-> rd, wr |-> wr]
        /\ UNCHANGED <<now, sankey_file, theses_and_dashboard_vars>>

\* the outcomes of the I/O of one get_calendar_events call; the outcome of
\* a step that is not reached is fixed
CalendarIO(file, ticker, fmp, clock) ==
    LET reads == {rd \in ReadOutcomes : CanRead(file, rd)}
        first == fmp \in {"none_found", "found"}
        second == fmp # "found"
    IN  {io \in [rd1 : reads,
                 rd2 : IF first THEN reads ELSE {"ok"},
                 wr2 : IF first THEN WriteOutcomes ELSE {"ok"},
                 rd3 : IF second THEN ReadOutcomes ELSE {"ok"},
                 wr3 : IF second THEN WriteOutcomes ELSE {"ok"}] :
            /\ (io.rd3 = "err")
                  => (file.kind # "missing" \/ (first /\ io.wr2 # "open_fail"))
            /\ (~ get_cached_earnings(file, ticker, io.rd1, clock).none)
                  => (/\ io.rd2 = "ok" /\ io.wr2 = "ok"
                      /\ io.rd3 = "ok" /\ io.wr3 = "ok")}

GetCalendarEvents ==
    /\ Idle
    /\ \E ticker \in TickerInputs, fmp \in FmpOutcomes, yf \in YfOutcomes :
      \E io \in CalendarIO(earnings_file, ticker, fmp, now) :
        /\ \E r \in {get_calendar_events(earnings_file, ticker, fmp, yf, io, now)} :
               /\ earnings_file' = r.file
               /\ ret' = r.ret
               /\ promise' =
                    IF ~ r.saved THEN promise
                    ELSE IF fmp = "found"
                    THEN [promise EXCEPT !.earnings =
                            AfterSave(@, upper(ticker), r.save1, r.ret, now,
                                      "get_calendar_events")]
                    ELSE IF fmp = "none_found"
                    THEN [promise EXCEPT !.earnings =
                            AfterSave(AfterSave(@, upper(ticker), r.save1,
                                                EmptyDict, now,
                                                "get_calendar_events"),
                                      upper(ticker), r.save2, r.ret, now,
                                      "get_calendar_events")]
                    ELSE [promise EXCEPT !.earnings =
                            AfterSave(@, upper(ticker), r.save2, r.ret, now,
                                      "get_calendar_events")]
               /\ call' = [op |-> "get_calendar_events", ticker |-> ticker,
                           rd |-> io.rd1, contacted |-> r.contacted,
                           saved |-> r.saved]
        /\ UNCHANGED <<now, sankey_file, theses_and_dashboard_vars>>

SaveStructure ==
    \E ticker \in TickerInputs, structure \in Structures,
       rd \in ReadOutcomes, wr \in WriteOutcomes :
        /\ Idle
        /\ CanRead(sankey_file, rd)
        /\ \E r \in {save_structure(sankey_file, ticker, structure, rd, wr, now)} :
               /\ sankey_file' = r.file
               /\ ret' = r.ret
               /\ promise' = [promise EXCEPT !.sankey =
                     AfterSave(@, upper(ticker), r, structure, now, "save_structure")]
               /\ call' = [op |-> "save_structure", ticker |-> ticker,
                           rd |-> rd, wr |-> wr]
        /\ UNCHANGED <<now, earnings_file, theses_and_dashboard_vars>>

GetCachedStructure ==
    \E ticker \in TickerInputs, rd \in ReadOutcomes :
        /\ Idle
        /\ CanRead(sankey_file, rd)
        /\ ret' = get_cached_structure(sankey_file, ticker, rd)
        /\ call' = [op |-> "get_cached_structure", ticker |-> ticker, rd |-> rd]
        /\ UNCHANGED <<now, earnings_file, sankey_file, promise,
                       theses_and_dashboard_vars>>

InvalidateStructure ==
    \E ticker \in TickerInputs, rd \in ReadOutcomes, wr \in WriteOutcomes :
        /\ Idle
        /\ CanRead(sankey_file, rd)
        /\ \E r \in {sankey_invalidate_cache(sankey_file, ticker, rd, wr)} :
               /\ sankey_file' = r.file
               /\ ret' = r.ret
               /\ promise' = [promise EXCEPT !.sankey =
                                 AfterInvalidate(@, upper(ticker), r)]
               /\ call' = [op |-> "sankey_invalidate_cache", ticker |-> ticker,
                           rd |-> rd, wr |-> wr]
        /\ UNCHANGED <<now, earnings_file, theses_and_dashboard_vars>>

\* time passes
TickCache ==
    /\ Idle
    /\ now < MaxCacheNow
    /\ now' = now + 1
    /\ UNCHANGED <<call, ret, cache_vars, theses_and_dashboard_vars>>

NextEarnings ==
    \/ SaveEarnings \/ GetCachedEarnings \/ InvalidateEarnings
    \/ GetCalendarEvents \/ Return \/ TickCache

SpecEarnings == Init /\ [][NextEarnings]_vars

NextSankey ==
    \/ SaveStructure \/ GetCachedStructure \/ InvalidateStructure
    \/ Return \/ TickCache

SpecSankey == Init /\ [][NextSankey]_vars

\* the two managers share neither file nor state: a behaviour of this
\* specification runs one of them
NextCaches ==
    \/ sankey_file = MissingCache /\ promise.sankey = EmptyDict /\ NextEarnings
    \/ earnings_file = MissingCache /\ promise.earnings = EmptyDict /\ NextSankey

SpecCaches == Init /\ [][NextCaches]_vars

\* ---------------------------------------------- get_sankey_data, called
\* a typical income statement, and the values a row can hold instead
TypicalStatement ==
    [f \in StatementFields |->
        IF f = "Operating Expense" THEN Num(8) ELSE Num(3)]
FieldValues == {Absent, NaN, Num(0 - 2), Num(3), Num(8)}

\* the statements that differ from the typical one in at most MaxDeviations rows
IncomeStatements ==
    {EmptyStatement} \cup
    {s \in [StatementFields -> FieldValues] :
        Cardinality({f \in StatementFields : s[f] # TypicalStatement[f]})
            <= MaxDeviations}
FewStatements == {EmptyStatement, TypicalStatement}

\* segments_json: a text json.loads rejects, or the list it gives
InvalidJson == [valid |-> FALSE, segs |-> <<>>]
Parsed(segs) == [valid |-> TRUE, segs |-> segs]
SegmentInputs ==
    {InvalidJson,
     Parsed(<<>>),
     Parsed(<<[label |-> "Cloud", value |-> Num(1)],
              [label |-> "Devices", value |-> Num(2)]>>),
     Parsed(<<[label |-> "Cloud", value |-> Num(0 - 1)]>>),
     Parsed(<<[label |-> "Cloud", value |-> NaN]>>),
     Parsed(<<[label |-> "Cloud", value |-> Num(2)], [label |-> "Devices"]>>)}
FewSegments == {Parsed(<<>>)}

\* a call that raised
Raised(exception) == [raised |-> exception]

\* one call of get_sankey_data, with the three arguments of its signature or,
\* as app.py line 311 calls it, with a fourth one named agent, which the
\* signature of line 643 rejects. The body reads no cache file, calls no
\* agent and saves no structure.
GetSankeyData(statements, segment_inputs) ==
    /\ Idle
    /\ \E ticker \in TickerInputs, income_stmt \in statements,
          segments_json \in segment_inputs, agent_kw \in BOOLEAN :
        /\ ret' = IF agent_kw THEN Raised("TypeError")
                  ELSE get_sankey_data(ticker, income_stmt, segments_json)
        /\ call' = [op |-> "get_sankey_data", ticker |-> ticker,
                    agent_kw |-> agent_kw, cache_read |-> FALSE,
                    inferred |-> FALSE, saved |-> FALSE]
    /\ UNCHANGED <<now, cache_vars, theses_and_dashboard_vars>>

GetSankeyFlows == GetSankeyData(IncomeStatements, SegmentInputs)

NextSankeyFlows == GetSankeyFlows \/ Return

SpecSankeyFlows == Init /\ [][NextSankeyFlows]_vars

GetSankeyCached == GetSankeyData(FewStatements, FewSegments)

NextSankeyData == GetSankeyCached \/ NextSankey

SpecSankeyData == Init /\ [][NextSankeyData]_vars

\* ------------------------------------------------- agent.StockAgent calls
ContextInputs == {<<>>, <<"foo">>}
ThesisInputs == {Dict([thesis_statement |-> "b", confidence |-> 5])}

\* StockAgent(api_key, ticker).<method>(...), with what the API does
CallAgent ==
    /\ Idle
    /\ \E method \in Methods, api_key \in ApiKeys, context_results \in ContextInputs,
          current_thesis \in ThesisInputs, http \in HttpOutcomes :
          \E r \in {feature(method, api_key, context_results, current_thesis, http)} :
              /\ ret' = r.ret
              /\ call' = [op |-> "StockAgent", method |-> method, api_key |-> api_key,
                          context_results |-> context_results,
                          current_thesis |-> current_thesis, http |-> http,
                          posted |-> r.posted]
    /\ UNCHANGED <<now, cache_vars, theses_and_dashboard_vars>>

NextAgent == CallAgent \/ Return

SpecAgent == Init /\ [][NextAgent]_vars

\* --------------------------------------------- get_polymarket_data calls
Market(volume) == <<[question |-> Absent, volume |-> volume, odds_json |-> TRUE]>>

\* what the search by ticker can answer with: events with their first market
TickerEvents ==
    << [slug |-> "s1", title |-> Value(<<"A", "B", " ", "u", "p">>), markets |-> Market(5)],
       [slug |-> "s2", title |-> Value(<<"a", "b", " ", "C", "d">>), markets |-> Market(9)],
       [slug |-> "s3", title |-> Value(<<"z", "A", "b", "z">>), markets |-> Market(5)],
       [slug |-> "s4", title |-> Value(<<"z", " ", "a", "b">>), markets |-> Market(2)],
       [slug |-> "s5", title |-> Value(<<"A", "b">>),
        markets |-> <<[question |-> Absent, odds_json |-> FALSE]>>],
       [slug |-> "s6", title |-> Value(<<"a", "B", "c">>), markets |-> Market(7)],
       [slug |-> "s7", title |-> Value(<<"z", "z">>), markets |-> Market(10)],
       [slug |-> "s8", title |-> Absent,
        markets |-> <<[question |-> Value(<<"C", " ", "a", "b">>), volume |-> 3,
                       odds_json |-> TRUE]>>],
       [slug |-> "s9", title |-> Value(<<"a", "b">>), markets |-> <<>>] >>

\* what the search by company name can answer with: an event of the other
\* search, one of its own and one without title or question
NameEvents ==
    << TickerEvents[2],
       [slug |-> "n1", title |-> Value(<<"C", "D", " ", "z">>), markets |-> Market(8)],
       [slug |-> "n2", title |-> Absent,
        markets |-> <<[question |-> Absent, volume |-> 4, odds_json |-> TRUE]>>] >>

\* the events of a pool at the positions kept, in the order of the pool
Kept(pool, keep) ==
    [i \in 1..Cardinality(keep) |->
        pool[CHOOSE k \in keep : Cardinality({j \in keep : j <= k}) = i]]

\* the answers of a search: a failure, or the pool without at most MaxDropped
\* of its events
Responses(pool, dropped) ==
    {[ok |-> FALSE, events |-> <<>>]}
    \cup {[ok |-> TRUE, events |-> Kept(pool, keep)] :
            keep \in {k \in SUBSET DOMAIN pool : Cardinality(k) >= Len(pool) - dropped}}

CompanyNames ==
    {NoneValue, Value(<<>>), Value(<<" ">>), Value(<<"C", "d", " ", "I">>),
     Value(<<" ", "A", "B", " ">>)}
ExtraKeywords == {NoneValue, Value(<< <<"Z">>, <<"u", "p">> >>)}

GetPolymarketData ==
    /\ Idle
    /\ \E ticker \in TickerInputs, company_name \in CompanyNames,
          extra_keywords \in ExtraKeywords,
          ticker_response \in Responses(TickerEvents, MaxDropped),
          name_response \in Responses(NameEvents, Len(NameEvents)) :
          /\ ret' = get_polymarket_data(ticker, company_name, extra_keywords,
                                        ticker_response, name_response)
          /\ call' = [op |-> "get_polymarket_data", ticker |-> ticker,
                      company_name |-> company_name, extra_keywords |-> extra_keywords,
                      ticker_response |-> ticker_response,
                      name_response |-> name_response]
    /\ UNCHANGED <<now, cache_vars, theses_and_dashboard_vars>>

NextPolymarket == GetPolymarketData \/ Return

SpecPolymarket == Init /\ [][NextPolymarket]_vars

\* --------------------------------- two sessions saving to the same store
\* Streamlit runs each session's script in a thread of its own: two saves to
\* one store interleave at their read of the file and their write of it
Stores == {"theses", "earnings", "sankey"}
Sessions == {1, 2}

\* what the two sessions save: two different new theses, or entries for two
\* different tickers
SessionArgs(store) ==
    IF store = "theses"
    THEN {<<FreshDict(EmptyId, tk, <<"a">>), FreshDict(EmptyId, tk, <<"b">>)>> :
             tk \in Tickers}
    ELSE {<<[ticker |-> <<"a", "b">>, data |-> d], [ticker |-> <<"C">>, data |-> d]>> :
             d \in IF store = "earnings" THEN {DatesFMP} ELSE {StructA}}

\* the file of a store
FileOf(store) ==
    CASE store = "theses" -> theses_file
      [] store = "earnings" -> earnings_file
      [] store = "sankey" -> sankey_file

\* the first half of a save: the file read and the value to write built in
\* memory (theses_manager lines 31-69, the cache managers' lines 59-64)
InMemory(store, file, arg, rd, clock, uuid) ==
    CASE store = "theses" ->
            LET b == SaveBody(SaveLoaded(file, rd).theses, arg, clock, uuid)
            IN  [value |-> b.theses, id |-> b.data["id"], path |-> b.path]
      [] store = "earnings" ->
            [value |-> Put(load_cache(file, rd), upper(arg.ticker),
                           [data |-> arg.data, cached_date |-> DateOf(clock),
                            cached_at |-> clock]),
             id |-> EmptyId, path |-> "save"]
      [] store = "sankey" ->
            [value |-> Put(load_cache(file, rd), upper(arg.ticker),
                           [structure |-> arg.data, cached_at |-> clock]),
             id |-> EmptyId, path |-> "save"]

\* the two sessions call save_thesis, save_earnings or save_structure
StartSessions ==
    /\ Idle
    /\ \E store \in Stores : \E args \in SessionArgs(store) :
          call' = [op |-> "sessions", store |-> store,
                   session |-> [i \in Sessions |->
                                   [pc |-> "start", arg |-> args[i],
                                    memory |-> <<>>, id |-> EmptyId,
                                    success |-> FALSE]]]
    /\ UNCHANGED <<ret, now, nextId, theses_file, cache_vars, dashboard_vars>>

\* a session reads the file and builds what it will write
SessionRead(i) ==
    /\ call.op = "sessions"
    /\ call.session[i].pc = "start"
    /\ \E rd \in ReadOutcomes :
          /\ CanRead(FileOf(call.store), rd)
          /\ \E m \in {InMemory(call.store, FileOf(call.store), call.session[i].arg,
                                rd, now, nextId)} :
                /\ m.path = "create" => nextId <= MaxIds
                /\ nextId' = IF m.path = "create" THEN nextId + 1 ELSE nextId
                /\ call' = [call EXCEPT !.session[i].pc = "read",
                                        !.session[i].memory = m.value,
                                        !.session[i].id = m.id]
    /\ UNCHANGED <<ret, now, theses_file, cache_vars, dashboard_vars>>

\* a session writes the file and returns (theses_manager lines 71-76, the
\* cache managers' lines 66-73 and 78-85)
SessionWrite(i) ==
    /\ call.op = "sessions"
    /\ call.session[i].pc = "read"
    /\ \E wr \in WriteOutcomes :
          /\ call' = [call EXCEPT !.session[i].pc = "returned",
                                  !.session[i].success = (wr = "ok")]
          /\ \E f \in {WriteFile(FileOf(call.store), call.session[i].memory, wr)} :
                /\ theses_file' = IF call.store = "theses" THEN f ELSE theses_file
                /\ earnings_file' = IF call.store = "earnings" THEN f ELSE earnings_file
                /\ sankey_file' = IF call.store = "sankey" THEN f ELSE sankey_file
    /\ UNCHANGED <<ret, now, nextId, promise, dashboard_vars>>

\* both sessions have returned
SessionsReturn ==
    /\ call.op = "sessions"
    /\ \A i \in Sessions : call.session[i].pc = "returned"
    /\ call' = NoCall
    /\ UNCHANGED <<ret, now, nextId, theses_file, cache_vars, dashboard_vars>>

NextSessions ==
    \/ StartSessions
    \/ \E i \in Sessions : SessionRead(i)
    \/ \E i \in Sessions : SessionWrite(i)
    \/ SessionsReturn

SpecSessions == Init /\ [][NextSessions]_vars

\* ================================================================== claims
IsPrefix(s, t) == Len(s) <= Len(t) /\ SubSeq(t, 1, Len(s)) = s

Ids(theses) == {theses[i]["id"] : i \in 1..Len(theses)}

\* a step in which save_thesis / delete_thesis is called and runs to its return
SaveStep == Idle /\ call'.op = "save_thesis"
DeleteStep == Idle /\ call'.op = "delete_thesis"

\* ------------------------------------------------------------------- C1
\* C1: the stored list never holds two records with the same ticker and the
\* same thesis_statement.
C1_NoDuplicateContent ==
    \A i, j \in 1..Len(Stored(theses_file)) :
        (/\ i # j
         /\ Stored(theses_file)[i]["ticker"] = Stored(theses_file)[j]["ticker"]
         /\ Stored(theses_file)[i]["thesis_statement"]
                = Stored(theses_file)[j]["thesis_statement"])
        => FALSE

\* ------------------------------------------------------------------- C2
\* C2: when load_theses fails with a file-access error (returns None),
\* save_thesis returns (False, "Failed to load existing theses (File Access
\* Error).") and leaves the theses file unchanged.
C2_SaveRefusesAfterLoadError ==
    [][(SaveStep /\ load_theses(theses_file, call'.rd).none)
        => (/\ ret'[1] = FALSE
            /\ ret'[2] = LoadFailedMsg
            /\ theses_file' = theses_file)]_vars

\* ------------------------------------------------------------------- C3
\* C3: when load_theses returns None, or no loaded record has the given id,
\* delete_thesis returns False and leaves the theses file unchanged.
C3_DeleteNothingKeepsFile ==
    [][(/\ DeleteStep
        /\ \/ load_theses(theses_file, call'.rd).none
           \/ call'.arg \notin Ids(load_theses(theses_file, call'.rd).theses))
        => (ret' = FALSE /\ theses_file' = theses_file)]_vars

\* a delete_thesis that met a load error on a file holding records has returned
C3_Witness ==
    /\ call.op = "delete_thesis"
    /\ call.rd = "err"
    /\ ret = FALSE
    /\ Len(Stored(theses_file)) > 0

\* ------------------------------------------------------------------- C4
\* the stored record with the id of the argument, 0 when there is none
IndexOfId(theses, id) ==
    IF id \in Ids(theses)
    THEN CHOOSE i \in 1..Len(theses) :
            theses[i]["id"] = id /\ \A j \in 1..(i - 1) : theses[j]["id"] # id
    ELSE 0

\* theses with exactly the record at index i replaced, by a record that is
\* the argument plus an 'updated_at' stamp
ReplacedInPlace(before, after, i, arg) ==
    /\ Len(after) = Len(before)
    /\ \A j \in 1..Len(before) : j # i => after[j] = before[j]
    /\ "updated_at" \in DOMAIN after[i]
    /\ \A k \in DOMAIN arg : k # "updated_at" =>
            (k \in DOMAIN after[i] /\ after[i][k] = arg[k])

\* before plus exactly one record appended, with a fresh id and 'created_at'
AppendedFresh(before, after, arg, everIssued) ==
    /\ Len(after) = Len(before) + 1
    /\ IsPrefix(before, after)
    /\ LET d == after[Len(after)]
       IN  /\ d["id"] # EmptyId
           /\ d["id"] \notin everIssued
           /\ "created_at" \in DOMAIN d
           /\ d["ticker"] = arg["ticker"]
           /\ d["thesis_statement"] = arg["thesis_statement"]

\* C4 as stated: a non-empty id matching a stored record replaces it in place
\* with 'updated_at' set and the count unchanged; a missing or empty id with
\* no stored record of the same ticker and statement appends exactly one
\* record with a fresh id and 'created_at'; both return (True, id).
C4_SaveUpdatesOrCreates ==
    [][SaveStep =>
        LET arg == call'.arg
            before == Stored(theses_file)
            after == Stored(theses_file')
        IN  /\ (~ NoId(arg) /\ arg["id"] \in Ids(before)) =>
                  /\ ReplacedInPlace(before, after, IndexOfId(before, arg["id"]), arg)
                  /\ ret'[1] = TRUE
                  /\ ret'[2] = arg["id"]
            /\ (/\ NoId(arg)
                /\ \A i \in 1..Len(before) :
                      ~ (/\ before[i]["ticker"] = arg["ticker"]
                         /\ before[i]["thesis_statement"] = arg["thesis_statement"]))
                => /\ AppendedFresh(before, after, arg, 1..(nextId - 1))
                   /\ ret'[1] = TRUE
                   /\ ret'[2] = after[Len(after)]["id"]]_vars

\* C4, amended: the same two cases read against the list save_thesis loaded
\* (empty when the file is missing, empty, undecodable or unreadable), with
\* "duplicate" meaning same ticker and same statement after strip(), and with
\* the return value (True, id) when the write succeeds and (False, text) when
\* it fails.
C4_SaveUpdatesOrCreatesLoaded ==
    [][SaveStep =>
        LET arg == call'.arg
            loaded == SaveLoaded(theses_file, call'.rd).theses
            after == theses_file'.data
        IN  /\ call'.wr # "ok" => ret'[1] = FALSE
            /\ (call'.wr = "ok" /\ ~ NoId(arg) /\ arg["id"] \in Ids(loaded)) =>
                  /\ theses_file'.kind = "json"
                  /\ ReplacedInPlace(loaded, after, IndexOfId(loaded, arg["id"]), arg)
                  /\ after[IndexOfId(loaded, arg["id"])]["updated_at"] = now
                  /\ ret'[1] = TRUE
                  /\ ret'[2] = arg["id"]
            /\ (/\ call'.wr = "ok"
                /\ NoId(arg)
                /\ \A i \in 1..Len(loaded) :
                      ~ (/\ loaded[i]["ticker"] = arg["ticker"]
                         /\ strip(loaded[i]["thesis_statement"])
                                = strip(arg["thesis_statement"])))
                => /\ theses_file'.kind = "json"
                   /\ AppendedFresh(loaded, after, arg, 1..(nextId - 1))
                   /\ after[Len(after)]["created_at"] = now
                   /\ ret'[1] = TRUE
                   /\ ret'[2] = after[Len(after)]["id"]]_vars

\* an update by id has been written over a list of two records, after a
\* create
C4_Witness ==
    /\ call.op = "save_thesis"
    /\ call.path = "update"
    /\ call.wr = "ok"
    /\ call.rd = "ok"
    /\ ret[1] = TRUE
    /\ Len(Stored(theses_file)) = 2
    /\ \E i \in 1..2 : "created_at" \in DOMAIN Stored(theses_file)[i]

\* ------------------------------------------------------------------- C5
\* C5 as stated: after any operation the sequence of records before it is a
\* prefix of the sequence after it.
C5_AppendOnly ==
    [][IsPrefix(Stored(theses_file), Stored(theses_file'))]_vars

\* C5, amended: a save_thesis that adds a record (no id and no stripped
\* duplicate in the loaded list, or an id not in the loaded list) and whose
\* write succeeds writes the loaded list followed by exactly one record;
\* updates replace a record and delete_thesis removes records.
C5_AppendsKeepLoadedPrefix ==
    [][(/\ SaveStep
        /\ call'.wr = "ok"
        /\ LET arg == call'.arg
               loaded == SaveLoaded(theses_file, call'.rd).theses
           IN  IF NoId(arg)
               THEN \A i \in 1..Len(loaded) : ~ SameContent(loaded[i], arg)
               ELSE arg["id"] \notin Ids(loaded))
        => (/\ theses_file'.kind = "json"
            /\ IsPrefix(SaveLoaded(theses_file, call'.rd).theses, theses_file'.data)
            /\ Len(theses_file'.data)
                  = Len(SaveLoaded(theses_file, call'.rd).theses) + 1)]_vars

\* a second record has been appended behind a first one
C5_Witness ==
    /\ call.op = "save_thesis"
    /\ call.path \in {"create", "recover"}
    /\ call.rd = "ok"
    /\ call.wr = "ok"
    /\ Len(Stored(theses_file)) = 2


\* ------------------------------------------------------------------- C6
\* C6: every record persisted through the dashboard has a confidence in 1..10
\* and a time_horizon that is one of the four options of the selectbox.
C6_PersistedInRange ==
    \A i \in 1..Len(Stored(theses_file)) :
        /\ Stored(theses_file)[i]["confidence"] \in SliderMin..SliderMax
        /\ Stored(theses_file)[i]["time_horizon"] \in HorizonOptions

\* ------------------------------------------------------------------- C7
\* the entry vouched for by the last save or invalidate for the ticker of the
\* call being made
EarningsGetStep == Idle /\ call'.op = "get_cached_earnings"
SavedEarnings(key) ==
    /\ key \in DOMAIN promise.earnings
    /\ promise.earnings[key].kind = "saved"

CalendarStep == Idle /\ call'.op = "get_calendar_events"
\* an earlier get_calendar_events call for the key cached its result today
\* and no save or invalidate for the key came after it
QueriedToday(key) ==
    /\ SavedEarnings(key)
    /\ promise.earnings[key].by = "get_calendar_events"
    /\ promise.earnings[key].date = DateOf(now)

StructureGetStep == Idle /\ call'.op = "get_cached_structure"

KeysUppercase(file) ==
    file.kind = "json" => \A key \in DOMAIN file.data : upper(key) = key

\* C10: every key of the two cache files is uppercase, and each operation of
\* the two managers gives, for a ticker in any letter case, the file and the
\* result it gives for the uppercased ticker.
C10_KeyedByUppercase ==
    /\ KeysUppercase(earnings_file)
    /\ KeysUppercase(sankey_file)
    /\ Idle =>
        \A ticker \in TickerInputs, rd \in ReadOutcomes :
          /\ get_cached_earnings(earnings_file, ticker, rd, now)
               = get_cached_earnings(earnings_file, upper(ticker), rd, now)
          /\ get_cached_structure(sankey_file, ticker, rd)
               = get_cached_structure(sankey_file, upper(ticker), rd)
          /\ \A wr \in WriteOutcomes :
               /\ earnings_invalidate_cache(earnings_file, ticker, rd, wr)
                    = earnings_invalidate_cache(earnings_file, upper(ticker), rd, wr)
               /\ sankey_invalidate_cache(sankey_file, ticker, rd, wr)
                    = sankey_invalidate_cache(sankey_file, upper(ticker), rd, wr)
               /\ \A data \in EarningsData :
                    save_earnings(earnings_file, ticker, data, rd, wr, now)
                      = save_earnings(earnings_file, upper(ticker), data, rd, wr, now)
               /\ \A structure \in Structures :
                    save_structure(sankey_file, ticker, structure, rd, wr, now)
                      = save_structure(sankey_file, upper(ticker), structure, rd, wr, now)

\* a save under a lower-case ticker wrote the upper-case key and no other
C10_Witness ==
    /\ call.op = "save_earnings"
    /\ call.ticker = <<"a", "b">>
    /\ ret = TRUE
    /\ earnings_file.kind = "json"
    /\ DOMAIN earnings_file.data = {<<"A", "B">>}

\* ------------------------------------------------------------------ C11
\* the dict a file holds, {} when it holds none
CacheOf(file) == load_cache(file, "ok")

\* what an invalidate_cache step did to its file
InvalidateOutcome(file, after, ticker, rd, wr, result) ==
    LET key == upper(ticker)
        found == key \in DOMAIN load_cache(file, rd)
    IN  /\ result = (found /\ wr = "ok")
        /\ result => /\ key \in DOMAIN CacheOf(file)
                     /\ after.kind = "json"
                     /\ key \notin DOMAIN after.data
                     /\ after.data = Remove(CacheOf(file), key)
        /\ (~ found) => after = file

\* C11: invalidate_cache of either manager returns True exactly when it found
\* the ticker's entry and wrote the file without it, False when the entry was
\* not found or the write failed; when the entry is not found the file is left
\* as it is, and after a True the entry is absent from the file.
C11_InvalidateReportsRemoval ==
    [][/\ (Idle /\ call'.op = "earnings_invalidate_cache")
            => InvalidateOutcome(earnings_file, earnings_file', call'.ticker,
                                 call'.rd, call'.wr, ret')
       /\ (Idle /\ call'.op = "sankey_invalidate_cache")
            => InvalidateOutcome(sankey_file, sankey_file', call'.ticker,
                                 call'.rd, call'.wr, ret')]_vars

\* an invalidate for a lower-case ticker returned True and left only the
\* other ticker's entry in the file
C11_Witness ==
    /\ call.op = "sankey_invalidate_cache"
    /\ call.ticker = <<"a", "b">>
    /\ ret = TRUE
    /\ sankey_file.kind = "json"
    /\ DOMAIN sankey_file.data = {<<"C">>}
    /\ promise.sankey[<<"A", "B">>].kind = "invalidated"

\* ------------------------------------------------------------------ C12
\* C12: every entry of the 'value' list get_sankey_data returns is strictly
\* greater than 0.
C12_FlowsPositive ==
    (call.op = "get_sankey_data" /\ ~ call.agent_kw /\ ~ ret.none)
        => \A i \in 1..Len(ret.value.value) : Positive(ret.value.value[i])

\* ------------------------------------------------------------------ C13
\* C13: get_sankey_data reads the structure cache first; on a hit it uses the
\* cached structure and does not call infer_sankey_structure; on a miss it
\* calls infer_sankey_structure and stores what was inferred with save_structure.
C13_CacheFirst ==
    [][(Idle /\ call'.op = "get_sankey_data")
        => /\ call'.cache_read
           /\ IF upper(call'.ticker) \in DOMAIN CacheOf(sankey_file)
              THEN ~ call'.inferred
              ELSE call'.inferred /\ call'.saved]_vars

\* C14: a StockAgent built with an empty API key answers every feature method
\* with that method's fallback value, posts no HTTP request and does not
\* raise; the fallback of analyze_news contains "Please provide a gemini API
\* Key".
FallbackOf(method, current_thesis) ==
    CASE method \in {"analyze_strategy", "analyze_strategic_intelligence"} ->
            Text(<<"Please provide a gemini API Key", ".">>)
      [] method \in {"analyze_events", "analyze_financials"} -> Text(<<"No API Key.">>)
      [] method = "extract_revenue_segments" -> Text(<<"[]">>)
      [] method = "identify_core_driver" -> Text(<<"N/A">>)
      [] method \in {"identify_competitors", "get_branding_keywords"} -> List(<<>>)
      [] method = "generate_thesis" -> Dict([error |-> "No API Key"])
      [] method = "refine_thesis" -> current_thesis
      [] method = "infer_sankey_structure" -> PyNone

Contains(text, part) == \E i \in DOMAIN text.body : text.body[i] = part

C14_EmptyKeyFallback ==
    (call.op = "StockAgent" /\ call.api_key = EmptyKey) =>
        /\ ~ call.posted
        /\ "raised" \notin DOMAIN ret
        /\ IF call.method = "analyze_news"
           THEN ret.type = "str" /\ Contains(ret, "Please provide a gemini API Key")
           ELSE ret = FallbackOf(call.method, call.current_thesis)

C14_Witness ==
    /\ call.op = "StockAgent"
    /\ call.api_key = EmptyKey
    /\ call.method = "analyze_events"
    /\ call.context_results # <<>>
    /\ ret = Text(<<"No API Key.">>)

\* C15: get_polymarket_data returns at most 5 entries, sorted by volume in
\* non-increasing order, no two of the same event slug, each with a title that
\* contains (case-insensitively) the ticker, the first word of the company
\* name or an extra keyword; and no event that was fetched with a market and
\* such a title, and is not returned, has a higher volume than a returned one.
MatchesTitle(title, c) ==
    \/ substring_in(lower(c.ticker), lower(title))
    \/ /\ truthy(c.company_name)
       /\ ~ no_word(c.company_name.value)
       /\ substring_in(lower(first_word(c.company_name.value)), lower(title))
    \/ /\ truthy(c.extra_keywords)
       /\ \E i \in DOMAIN c.extra_keywords.value :
              substring_in(lower(c.extra_keywords.value[i]), lower(title))

FilteredIn(c) ==
    LET events == IF truthy(c.company_name) /\ no_word(c.company_name.value)
                  THEN <<>>
                  ELSE fetched_events(c.ticker, c.company_name,
                                      c.ticker_response, c.name_response)
    IN  {events[i] : i \in {j \in DOMAIN events :
                              /\ events[j].markets # <<>>
                              /\ title_of(events[j]) # NoneValue
                              /\ MatchesTitle(title_of(events[j]).value, c)}}

C15_TopFiveFiltered ==
    call.op = "get_polymarket_data" =>
        /\ Len(ret) <= 5
        /\ \A i, j \in DOMAIN ret : i < j => ret[i].volume >= ret[j].volume
        /\ \A i, j \in DOMAIN ret : i # j => ret[i].url # ret[j].url
        /\ \A i \in DOMAIN ret : MatchesTitle(ret[i].title, call)
        /\ \A event \in FilteredIn(call) :
              (\A i \in DOMAIN ret : ret[i].url # event.slug) =>
                  \A i \in DOMAIN ret : volume_of(event.markets[1]) <= ret[i].volume

C15_Witness ==
    /\ call.op = "get_polymarket_data"
    /\ Len(ret) = 5
    /\ Cardinality(FilteredIn(call)) > 5
    /\ \E i \in DOMAIN ret : ret[i].url = "n1"
    /\ \E i \in 1..4 : ret[i].volume = ret[i + 1].volume

\* ------------------------------------------------------------------- C16
\* the first record of theses with the ticker and the stripped statement of
\* the argument, 0 when there is none
FirstDuplicate(theses, arg) ==
    IF \E i \in 1..Len(theses) : SameContent(theses[i], arg)
    THEN CHOOSE i \in 1..Len(theses) :
            /\ SameContent(theses[i], arg)
            /\ \A j \in 1..(i - 1) : ~ SameContent(theses[j], arg)
    ELSE 0

\* after is before with exactly the record at index i replaced by the
\* argument carrying the id of that record and an 'updated_at' stamp
ReplacedByInput(before, after, i, arg) ==
    /\ Len(after) = Len(before)
    /\ \A j \in 1..Len(before) : j # i => after[j] = before[j]
    /\ after[i]["id"] = before[i]["id"]
    /\ "updated_at" \in DOMAIN after[i]
    /\ DOMAIN after[i] = DOMAIN arg \cup {"id", "updated_at"}
    /\ \A k \in DOMAIN arg \ {"id", "updated_at"} : after[i][k] = arg[k]

\* C16 as stated: a save_thesis without id whose ticker and stripped
\* statement are those of a stored record replaces the first such record in
\* place by the input with that record's id and 'updated_at', leaves the
\* length unchanged, generates no id and returns the existing id.
C16_DuplicateUpdatesInPlace ==
    [][(SaveStep /\ NoId(call'.arg)
        /\ FirstDuplicate(Stored(theses_file), call'.arg) # 0)
        => LET before == Stored(theses_file)
               i == FirstDuplicate(before, call'.arg)
           IN  /\ ReplacedByInput(before, Stored(theses_file'), i, call'.arg)
               /\ nextId' = nextId
               /\ ret' = <<TRUE, before[i]["id"]>>]_vars

\* C16, amended: the same read against the list save_thesis loaded (empty
\* when the file could not be read): no id is generated; when the write
\* succeeds the first duplicate of that list is replaced in place by the
\* input with its id and 'updated_at' = now, the length is unchanged and
\* (True, existing id) is returned; when the write fails (False, text) is.
C16_LoadedDuplicateUpdatesInPlace ==
    [][(SaveStep /\ NoId(call'.arg)
        /\ FirstDuplicate(SaveLoaded(theses_file, call'.rd).theses, call'.arg) # 0)
        => LET loaded == SaveLoaded(theses_file, call'.rd).theses
               i == FirstDuplicate(loaded, call'.arg)
           IN  /\ nextId' = nextId
               /\ call'.wr # "ok" => ret'[1] = FALSE
               /\ call'.wr = "ok" =>
                    /\ theses_file'.kind = "json"
                    /\ ReplacedByInput(loaded, theses_file'.data, i, call'.arg)
                    /\ theses_file'.data[i]["updated_at"] = now
                    /\ ret' = <<TRUE, loaded[i]["id"]>>]_vars

\* a save without id has replaced the first of two records that both have
\* its ticker and stripped statement
C16_Witness ==
    /\ call.op = "save_thesis"
    /\ call.path = "dedup"
    /\ call.wr = "ok"
    /\ Len(Stored(theses_file)) = 2
    /\ SameContent(Stored(theses_file)[2], call.arg)
    /\ Stored(theses_file)[1]["id"] = ret[2]
    /\ Stored(theses_file)[1]["id"] # Stored(theses_file)[2]["id"]
    /\ Stored(theses_file)[1]["thesis_statement"] = call.arg["thesis_statement"]
    /\ Stored(theses_file)[1]["thesis_statement"]
          # Stored(theses_file)[2]["thesis_statement"]

\* ------------------------------------------------------------------- C17
\* C17: thesis ids are unique: with uuid4 values that are fresh, after any
\* sequence of save_thesis and delete_thesis calls no two stored records have
\* the same id.
C17_IdsUnique ==
    \A i, j \in 1..Len(theses_file.data) :
        i # j => theses_file.data[i]["id"] # theses_file.data[j]["id"]

\* a save with the id of a record that had been deleted has put the record
\* back behind another one
C17_Witness ==
    /\ call.op = "save_thesis"
    /\ call.path = "recover"
    /\ call.wr = "ok"
    /\ Len(Stored(theses_file)) = 2
    /\ Stored(theses_file)[2]["id"] < Stored(theses_file)[1]["id"]

\* ------------------------------------------------------------------- C18
\* a step in which the draft form or the journal editor saved, save_thesis
\* took an update branch and returned (True, id)
UpdateStep(ops) ==
    /\ Idle
    /\ call'.op \in ops
    /\ call'.path \in {"update", "dedup"}
    /\ ret'[1] = TRUE

\* the records stored with 'created_at' that the step updated are stored
\* afterwards under the same id with the same 'created_at'
KeepsCreatedAt ==
    \A i \in 1..Len(Stored(theses_file)) :
        (/\ Stored(theses_file)[i]["id"] = ret'[2]
         /\ "created_at" \in DOMAIN Stored(theses_file)[i])
        => \E j \in 1..Len(Stored(theses_file')) :
              /\ Stored(theses_file')[j]["id"] = ret'[2]
              /\ "created_at" \in DOMAIN Stored(theses_file')[j]
              /\ Stored(theses_file')[j]["created_at"]
                    = Stored(theses_file)[i]["created_at"]

\* C18: a save_thesis that updates a record stored with 'created_at' (by id
\* from the draft form, by id from the journal editor, or through the
\* de-duplication path) leaves a record with the same id whose 'created_at'
\* is present and unchanged.
C18_CreatedAtKept ==
    [][UpdateStep({"on_save_thesis", "journal_save"}) => KeepsCreatedAt]_vars

\* ------------------------------------------------------------------- C19
\* after holds the records of before whose id is not the argument, all of
\* them, unchanged and in their order, and no other record
RemovedExactly(before, after, thesis_id) ==
    /\ \A j \in 1..Len(after) : after[j]["id"] # thesis_id
    /\ \E f \in [1..Len(after) -> 1..Len(before)] :
          /\ \A j, k \in 1..Len(after) : j < k => f[j] < f[k]
          /\ \A j \in 1..Len(after) : after[j] = before[f[j]]
          /\ \A i \in 1..Len(before) :
                before[i]["id"] # thesis_id => \E j \in 1..Len(after) : f[j] = i

\* C19: a delete_thesis(id) that returns True has removed the records whose
\* id is the argument, at least one, and nothing else: the other records
\* remain, unchanged and in their order.
C19_DeleteRemovesExactly ==
    [][(DeleteStep /\ ret' = TRUE)
        => /\ theses_file'.kind = "json"
           /\ Len(theses_file'.data) < Len(Stored(theses_file))
           /\ RemovedExactly(Stored(theses_file), theses_file'.data, call'.arg)]_vars

\* the first of two records has been deleted and the second one is left
C19_Witness ==
    /\ call.op = "delete_thesis"
    /\ ret = TRUE
    /\ Len(Stored(theses_file)) = 1
    /\ Stored(theses_file)[1]["id"] > call.arg

\* ------------------------------------------------------------------- C20
\* load_theses on the file as it is: [] when it is missing, empty or not
\* valid JSON, None only when the read fails otherwise
LoadsAsStated ==
    \A rd \in ReadOutcomes :
        CanRead(theses_file, rd) =>
            /\ (rd = "ok" /\ theses_file.kind \in {"missing", "empty", "invalid"})
                  => load_theses(theses_file, rd) = Some(<<>>)
            /\ load_theses(theses_file, rd).none
                  => (rd = "err" /\ theses_file.kind # "missing")

\* the file holds a list with only the record saved from the argument
OnlySavedRecord(file, arg, id) ==
    /\ file.kind = "json"
    /\ Len(file.data) = 1
    /\ file.data[1]["id"] = id
    /\ \A k \in DOMAIN arg \ {"id", "updated_at"} :
          k \in DOMAIN file.data[1] /\ file.data[1][k] = arg[k]

\* C20 as stated: load_theses returns [] for a missing, empty or undecodable
\* file and None only for other read errors; a save_thesis performed while
\* the file holds invalid JSON succeeds and replaces the content by a list
\* holding only the saved record.
C20_InvalidJsonIsEmpty ==
    /\ []LoadsAsStated
    /\ [][(SaveStep /\ theses_file.kind = "invalid")
           => /\ ret'[1] = TRUE
              /\ OnlySavedRecord(theses_file', call'.arg, ret'[2])]_vars

\* C20, amended: the same, the save succeeding and replacing the content
\* when its write succeeds and returning (False, text) when it does not.
C20_InvalidJsonIsEmptyIfWritten ==
    /\ []LoadsAsStated
    /\ [][(SaveStep /\ theses_file.kind = "invalid")
           => /\ call'.wr # "ok" => ret'[1] = FALSE
              /\ call'.wr = "ok" =>
                    /\ ret'[1] = TRUE
                    /\ OnlySavedRecord(theses_file', call'.arg, ret'[2])]_vars

\* a save_thesis that found invalid JSON has written its record
C20_Witness ==
    /\ call.op = "save_thesis"
    /\ call.found = "invalid"
    /\ call.rd = "ok"
    /\ ret[1] = TRUE
    /\ Len(Stored(theses_file)) = 1

\* ------------------------------------------------------------------ C21
\* a step in which one of the writing operations of a cache manager ran on a
\* file that held JSON and was read
CacheWriteStep(ops, file) ==
    /\ Idle
    /\ call'.op \in ops
    /\ file.kind = "json"
    /\ call'.rd = "ok"

\* the entries of the tickers other than the one given are in the file
\* afterwards as they were before, and no other entry has appeared
OthersUntouched(file, after, ticker) ==
    LET key == upper(ticker)
    IN  /\ DOMAIN CacheOf(after) \ {key} = DOMAIN file.data \ {key}
        /\ \A other \in DOMAIN file.data \ {key} :
              CacheOf(after)[other] = file.data[other]

HoldsSaved(store, s) ==
    IF store = "theses"
    THEN \E k \in 1..Len(Stored(theses_file)) :
            /\ Stored(theses_file)[k]["id"] = s.id
            /\ Stored(theses_file)[k]["ticker"] = s.arg["ticker"]
            /\ Stored(theses_file)[k]["thesis_statement"] = s.arg["thesis_statement"]
    ELSE upper(s.arg.ticker) \in DOMAIN CacheOf(FileOf(store))

\* C22: when two save_thesis calls for different new theses, or two
\* save_earnings / save_structure calls for different tickers, interleave at
\* their file read and file write and both return success, the file holds
\* both records or entries.
C22_NoLostUpdate ==
    (/\ call.op = "sessions"
     /\ \A i \in Sessions : call.session[i].pc = "returned" /\ call.session[i].success)
    => \A i \in Sessions : HoldsSaved(call.store, call.session[i])

\* ------------------------------------------------------------------ C23
\* what the reply of _generate parses to
ParsedReply(c) == json_loads(clean_json_text(generate(c.api_key, c.http).text))

\* the reply parses to a JSON object with both keys
IsStructure(parsed) ==
    /\ "raised" \notin DOMAIN parsed
    /\ parsed.type = "dict"
    /\ {"nodes", "links"} \subseteq DOMAIN parsed.dict

\* C23: infer_sankey_structure does not raise; it returns the object the
\* reply of _generate parses to when that is a JSON object with 'nodes' and
\* 'links', and None for every other reply (error string, non-JSON text,
\* JSON of another type, object lacking a key).
C23_StructureOrNone ==
    (call.op = "StockAgent" /\ call.method = "infer_sankey_structure"
     /\ call.api_key # EmptyKey)
    => /\ "raised" \notin DOMAIN ret
       /\ IF IsStructure(ParsedReply(call))
          THEN ret = ParsedReply(call)
          ELSE ret = PyNone

====
